---- MODULE Spec2Model ----
(***************************************************************************)
(* A model of the BEL edge pipeline of bel/edge/edges.py: create_edges     *)
(* turns the assertions of a nanopub into primary and computed edges       *)
(* (add_edge), and edge_iterator turns edges into node and relation        *)
(* documents with content-addressed keys.                                  *)
(*                                                                         *)
(* Python strings are TLA+ strings, Python lists are sequences, dicts are  *)
(* records.  The BEL object (bel.lang.belobj), bel.utils and bel_utils are *)
(* collaborators whose code is not part of the sources modelled here; they *)
(* are modelled from their documented contracts.                           *)
(***************************************************************************)
EXTENDS Integers, Sequences, FiniteSets, TLC

\* ------------------------------------------------------------------ bounds
\* Longest list of assertions of a nanopub handed to a single create_edges.
MaxAssertions == 2
\* Last instant of the UTC clock read by edge_iterator.
MaxClock == 1
\* Longest list of annotations handed to enhance_annotations.
MaxAnnotations == 2
\* Most edges appended to one list by add_edge.
MaxEdges == 2
\* Most in-place changes the caller makes to its lists and dicts.
MaxChanges == 2
\* The operations applied to one parsed statement.
MaxOps == 2

\* ------------------------------------------------------------ Python values
\* Python's None where a string is expected; str(None) is "None".
None == "None"

\* Python truthiness of an optional string (None and '' are falsy).
Truthy(s) == s # None /\ s # ""

\* An optional list: a list, or None.
PyList(items) == [py |-> "list", items |-> items]
PyNone == [py |-> "None", items |-> <<>>]

\* ------------------------------------------------------------------- terms
\* The AST of the BEL object: namespace arguments, functions, statements.
NSArg(ns, val) == [kind |-> "NSArg", name |-> ns, value |-> val, args |-> <<>>]
Function(name, args) == [kind |-> "Function", name |-> name, value |-> "", args |-> args]
NoObject == [kind |-> "None"]
BELAst(s, r, o) == [kind |-> "BELAst", bel_subject |-> s, bel_relation |-> r, bel_object |-> o]

RECURSIVE args_to_string(_)
RECURSIVE to_string(_)
\* The arguments of a function, separated by ", ".
args_to_string(args) ==
    IF args = <<>> THEN ""
    ELSE IF Len(args) = 1 THEN to_string(args[1])
    ELSE to_string(args[1]) \o ", " \o args_to_string(Tail(args))

\* The canonical serialisation of a term or of a statement; a statement that
\* is the object of a statement is put in parentheses.
to_string(t) ==
    CASE t.kind = "NSArg" -> t.name \o ":" \o t.value
      [] t.kind = "Function" -> t.name \o "(" \o args_to_string(t.args) \o ")"
      [] t.kind = "None" -> None
      [] t.kind = "BELAst" ->
            IF ~Truthy(t.bel_relation) THEN to_string(t.bel_subject)
            ELSE to_string(t.bel_subject) \o " " \o t.bel_relation \o " " \o
                 (IF t.bel_object.kind = "BELAst"
                    THEN "(" \o to_string(t.bel_object) \o ")"
                    ELSE to_string(t.bel_object))

RECURSIVE args_subcomponents(_, _)
RECURSIVE subcomponents(_, _)
args_subcomponents(args, acc) ==
    IF args = <<>> THEN acc
    ELSE args_subcomponents(Tail(args), subcomponents(args[1], acc))

\* The namespace terms below a function, in tree order, duplicates kept,
\* appended to the list handed in.
subcomponents(t, acc) ==
    CASE t.kind = "NSArg" -> Append(acc, to_string(t))
      [] t.kind = "Function" -> args_subcomponents(t.args, acc)

\* Apply a rewriting of namespace arguments to every term of a tree.
RECURSIVE MapArgs(_, _)
RECURSIVE MapTerm(_, _)
MapArgs(args, rw) ==
    [k \in DOMAIN args |-> MapTerm(args[k], rw)]

MapTerm(t, rw) ==
    CASE t.kind = "NSArg" -> (IF to_string(t) \in DOMAIN rw THEN rw[to_string(t)] ELSE t)
      [] t.kind = "Function" -> [t EXCEPT !.args = MapArgs(t.args, rw)]
      [] t.kind = "None" -> t
      [] t.kind = "BELAst" ->
            [t EXCEPT !.bel_subject = MapTerm(t.bel_subject, rw),
                      !.bel_object = MapTerm(t.bel_object, rw)]

\* ------------------------------------------------- resolution collaborators
\* The equivalents the namespace resolver knows: the namespace of the term
\* and its form in each other namespace.
Equivalents ==
    ("HGNC:AKT1" :> [ns |-> "HGNC", forms |-> ("EG" :> NSArg("EG", "207"))]) @@
    ("HGNC:EGF" :> [ns |-> "HGNC", forms |-> ("EG" :> NSArg("EG", "1950"))]) @@
    ("EG:207" :> [ns |-> "EG", forms |-> ("HGNC" :> NSArg("HGNC", "AKT1"))]) @@
    ("EG:1950" :> [ns |-> "EG", forms |-> ("HGNC" :> NSArg("HGNC", "EGF"))])

RECURSIVE first_target(_, _)
\* The first namespace of the ordered target list that has an equivalent.
first_target(s, targets) ==
    IF targets = <<>> THEN None
    ELSE IF Head(targets) \in DOMAIN Equivalents[s].forms THEN Head(targets)
    ELSE first_target(s, Tail(targets))

\* A faulty rewriting: a canonical term is rewritten once more.
canonical_rewrite_onward(namespace_targets) ==
    LET known == {s \in DOMAIN Equivalents :
                    /\ Equivalents[s].ns \in DOMAIN namespace_targets
                    /\ first_target(s, namespace_targets[Equivalents[s].ns]) # None}
    IN ("EG:207" :> NSArg("EG", "11651")) @@
       [s \in known |->
          Equivalents[s].forms[first_target(s, namespace_targets[Equivalents[s].ns])]]

\* The rewriting canonicalize applies under namespace_targets: a term whose
\* namespace has a target list and a known equivalent in it is replaced.
canonical_rewrite(namespace_targets) ==
    LET known == {s \in DOMAIN Equivalents :
                    /\ Equivalents[s].ns \in DOMAIN namespace_targets
                    /\ first_target(s, namespace_targets[Equivalents[s].ns]) # None}
    IN [s \in known |->
          Equivalents[s].forms[first_target(s, namespace_targets[Equivalents[s].ns])]]

\* A faulty canonicalize: the object of the statement is left as it is.
canonicalize_subject_only(ast, namespace_targets) ==
    [ast EXCEPT !.bel_subject = MapTerm(@, canonical_rewrite(namespace_targets))]

\* BEL.canonicalize: every namespace term of the statement is rewritten.
canonicalize(ast, namespace_targets) ==
    MapTerm(ast, canonical_rewrite(namespace_targets))

\* The preferred labels the resolver gives back for canonical terms.
decanonical_rewrite ==
    ("EG:207" :> NSArg("HGNC", "AKT1")) @@
    ("EG:1950" :> NSArg("HGNC", "EGF")) @@
    ("EG:11651" :> NSArg("MGI", "Akt1"))

\* BEL.decanonicalize: every canonical term is replaced by its label.
decanonicalize(ast) == MapTerm(ast, decanonical_rewrite)

\* bel_utils.convert_namespaces_str(..., decanonicalize=True): the string
\* of the term with every canonical namespace term replaced by its label.
convert_namespaces_str(t) == to_string(MapTerm(t, decanonical_rewrite))

\* The orthologs the orthology resolver knows for a target species.
ortholog_rewrite(target) ==
    IF target = "TAX:10090" THEN ("EG:207" :> NSArg("EG", "11651")) ELSE <<>>

\* BEL.orthologize: terms with an ortholog are replaced, the others kept.
orthologize(ast, target) == MapTerm(ast, ortholog_rewrite(target))

\* --------------------------------------------------------- computed edges
\* The computed-edge rule sets of the specification, by rule name.
ComputedRules ==
    << [name |-> "activity", trigger |-> "act", relation |-> "hasActivity",
        subject |-> "inner", object |-> "self"],
       [name |-> "degradation", trigger |-> "deg", relation |-> "directlyDecreases",
        subject |-> "self", object |-> "inner"] >>

RECURSIVE args_occurrences(_)
RECURSIVE occurrences(_)
args_occurrences(args) ==
    IF args = <<>> THEN <<>>
    ELSE occurrences(args[1]) \o args_occurrences(Tail(args))

\* The functions of a tree in traversal order: a function before its
\* arguments, the subject of a statement before its object.
occurrences(t) ==
    CASE t.kind = "NSArg" -> <<>>
      [] t.kind = "None" -> <<>>
      [] t.kind = "Function" -> <<t>> \o args_occurrences(t.args)
      [] t.kind = "BELAst" -> occurrences(t.bel_subject) \o occurrences(t.bel_object)

\* The statement a rule synthesises from an occurrence of its function.
apply_rule(rule, f) ==
    BELAst(IF rule.subject = "inner" THEN f.args[1] ELSE f,
           rule.relation,
           IF rule.object = "inner" THEN f.args[1] ELSE f)

RECURSIVE rules_for(_, _, _)
rules_for(f, rules, k) ==
    IF k > Len(ComputedRules) THEN <<>>
    ELSE LET rule == ComputedRules[k]
             on == /\ rule.trigger = f.name
                   /\ f.args # <<>>
                   /\ (rules = <<>> \/ \E j \in DOMAIN rules : rules[j] = rule.name)
         IN (IF on THEN <<apply_rule(rule, f)>> ELSE <<>>) \o rules_for(f, rules, k + 1)

RECURSIVE edges_of(_, _)
edges_of(fs, rules) ==
    IF fs = <<>> THEN <<>>
    ELSE rules_for(Head(fs), rules, 1) \o edges_of(Tail(fs), rules)

\* BEL.compute_edges(rules, ast_result=True): one statement per occurrence
\* and rule; an empty rules list applies every rule.
compute_edges(ast, rules) == edges_of(occurrences(ast), rules)

\* ---------------------------------------------------------------- parsing
P_AKT1 == Function("p", <<NSArg("HGNC", "AKT1")>>)
P_EGF == Function("p", <<NSArg("HGNC", "EGF")>>)
P_207 == Function("p", <<NSArg("EG", "207")>>)
act(x) == Function("act", <<x>>)
deg(x) == Function("deg", <<x>>)

\* The statements the parser accepts, as the trees it builds for them.
Grammar ==
    { BELAst(act(P_AKT1), "increases", P_EGF),
      BELAst(P_EGF, "increases", act(P_AKT1)),
      BELAst(act(P_207), "increases", P_EGF),
      BELAst(act(P_AKT1), None, NoObject),
      BELAst(P_207, "hasActivity", act(P_207)),
      BELAst(deg(P_EGF), "decreases", BELAst(P_AKT1, "increases", act(P_EGF))) }

\* A new BEL object: no statement parsed yet.
BEL == [ast |-> NoObject, parse_valid |-> FALSE, validation_messages |-> <<>>]

\* BEL.parse on an accepted statement: the tree, and no message.
parse_ok(statement) ==
    [ast |-> CHOOSE a \in Grammar : to_string(a) = statement,
     parse_valid |-> TRUE, validation_messages |-> <<>>]

\* BEL.parse on a rejected statement: a message and no valid parse; the
\* tree is either cleared or the one of the statement parsed before.
parse_failed(bo, statement, stale) ==
    [ast |-> IF stale THEN bo.ast ELSE NoObject,
     parse_valid |-> FALSE,
     validation_messages |-> <<"Failed parse at position 0: " \o statement>>]

accepted(statement) == \E a \in Grammar : to_string(a) = statement

\* ---------------------------------------------------------------- hashing
RECURSIVE join(_, _)
join(strs, sep) ==
    IF strs = <<>> THEN ""
    ELSE IF Len(strs) = 1 THEN strs[1]
    ELSE strs[1] \o sep \o join(Tail(strs), sep)

\* utils._create_hash: a collision-free digest of a string.
create_hash(s) == "#" \o s

dump_annotation(a) ==
    "{type: " \o a.type \o ", id: " \o a.id \o ", label: " \o a.label \o "}"

dump_annotations(annotations) ==
    IF annotations.py = "None" THEN None
    ELSE "[" \o join([k \in DOMAIN annotations.items |->
                        dump_annotation(annotations.items[k])], ", ") \o "]"

\* The text of one field of a document.
dump_field(doc, f) ==
    f \o ": " \o
    (CASE f = "components" -> "[" \o join(doc[f], ", ") \o "]"
       [] f = "annotations" -> dump_annotations(doc[f])
       [] f = "metadata" -> "{nanopub_id: " \o doc[f].nanopub_id \o "}"
       [] OTHER -> doc[f])

\* The fields a document may carry, in the order they are written.
FieldOrder ==
    << "name", "label", "components", "relation", "edge_hash", "nanopub_id",
       "edge_type", "subject_canon", "subject", "object_canon", "object",
       "annotations", "_from", "_to", "_key", "edge_dt", "metadata" >>

\* The text of a document: every field it has, with its value.
dump_doc(doc) ==
    LET present == SelectSeq(FieldOrder, LAMBDA f : f \in DOMAIN doc)
    IN "{" \o join([k \in DOMAIN present |-> dump_field(doc, present[k])], ", ") \o "}"

\* utils._create_hash_from_doc: a collision-free digest of the whole document.
create_hash_from_doc(doc) == create_hash(dump_doc(doc))

\* utils.dt_utc_formatted: the instant of the clock as text.
dt_utc_formatted(now) == "2018-01-01T00:00:0" \o ToString(now)

\* --------------------------------------------------------------- add_edge
\* The edge document add_edge builds for a statement.
edge_doc(edge_ast, nanopub_id, edge_type, annotations, edge_hash) ==
    LET subj_canon == to_string(edge_ast.bel_subject)
        subj_lbl == convert_namespaces_str(edge_ast.bel_subject)
        subj_components == subcomponents(edge_ast.bel_subject, <<>>)
        obj_canon == to_string(edge_ast.bel_object)
        obj_lbl == convert_namespaces_str(edge_ast.bel_object)
        obj_components ==
            IF edge_ast.bel_object.kind = "BELAst"
            THEN subcomponents(edge_ast.bel_object.bel_object,
                               subcomponents(edge_ast.bel_object.bel_subject, <<>>))
            ELSE subcomponents(edge_ast.bel_object, <<>>)
    IN [edge |->
          [subject |-> [name |-> subj_canon, label |-> subj_lbl,
                        components |-> subj_components],
           relation |-> [relation |-> edge_ast.bel_relation,
                         edge_hash |-> edge_hash,
                         nanopub_id |-> nanopub_id,
                         edge_type |-> edge_type,
                         subject_canon |-> subj_canon,
                         subject |-> subj_lbl,
                         object_canon |-> obj_canon,
                         object |-> obj_lbl,
                         annotations |-> annotations],
           object |-> [name |-> obj_canon, label |-> obj_lbl,
                       components |-> obj_components]]]

\* A faulty add_edge: the nanopub id goes into the hashed string.
add_edge_hashing_nanopub(edges, edge_ast, nanopub_id, edge_type, annotations) ==
    Append(edges,
           edge_doc(edge_ast, nanopub_id, edge_type, annotations,
                    create_hash(nanopub_id \o " " \o to_string(edge_ast.bel_subject) \o " "
                                \o edge_ast.bel_relation \o " "
                                \o to_string(edge_ast.bel_object))))

\* add_edge: the edge of the statement, hashed on "{subject} {relation}
\* {object}", is appended to the list.
add_edge(edges, edge_ast, nanopub_id, edge_type, annotations) ==
    Append(edges,
           edge_doc(edge_ast, nanopub_id, edge_type, annotations,
                    create_hash(to_string(edge_ast.bel_subject) \o " "
                                \o edge_ast.bel_relation \o " "
                                \o to_string(edge_ast.bel_object))))

\* ---------------------------------------------------------- edge_iterator
\* The node document of a subject or an object, with its key.
node_doc(node) == node @@ [_key |-> create_hash_from_doc(node)]

\* A faulty relation document: _from and _to are exchanged.
relation_links_exchanged(edge) ==
    edge.edge.relation @@
    [_from |-> "nodes/" \o create_hash_from_doc(edge.edge.object),
     _to |-> "nodes/" \o create_hash_from_doc(edge.edge.subject)]

\* The relation document before its key is derived.
relation_links(edge) ==
    edge.edge.relation @@
    [_from |-> "nodes/" \o create_hash_from_doc(edge.edge.subject),
     _to |-> "nodes/" \o create_hash_from_doc(edge.edge.object)]

\* The nanopub id, when the edge carries one at its top level.
relation_metadata(edge, relation) ==
    IF "nanopub_id" \in DOMAIN edge /\ Truthy(edge["nanopub_id"])
    THEN relation @@ [metadata |-> [nanopub_id |-> edge["nanopub_id"]]]
    ELSE relation

\* A faulty loop body: the node documents are stamped before they are keyed.
edge_iterator_stamped_nodes(edge, now) ==
    LET stamp(node) == node @@ [edge_dt |-> dt_utc_formatted(now)]
        subj == stamp(edge.edge.subject) @@
                    [_key |-> create_hash_from_doc(stamp(edge.edge.subject))]
        obj == stamp(edge.edge.object) @@
                    [_key |-> create_hash_from_doc(stamp(edge.edge.object))]
        linked == edge.edge.relation @@
                    [_from |-> "nodes/" \o subj._key, _to |-> "nodes/" \o obj._key]
        keyed == linked @@ [_key |-> create_hash_from_doc(linked)]
        relation == keyed @@ [edge_dt |-> dt_utc_formatted(now)]
    IN << <<"nodes", subj>>, <<"nodes", obj>>,
          <<"edges", relation_metadata(edge, relation)>> >>

\* A faulty loop body: the timestamp is attached before the key is derived.
edge_iterator_key_after_dt(edge, now) ==
    LET stamped == relation_links(edge) @@ [edge_dt |-> dt_utc_formatted(now)]
        relation == stamped @@ [_key |-> create_hash_from_doc(stamped)]
    IN << <<"nodes", node_doc(edge.edge.subject)>>,
          <<"nodes", node_doc(edge.edge.object)>>,
          <<"edges", relation_metadata(edge, relation)>> >>

\* A faulty loop body: the node keys also hash the nanopub id of the edge.
edge_iterator_node_key_with_provenance(edge, now) ==
    LET keyed_node(node) ==
            node @@ [_key |-> create_hash_from_doc(
                                 node @@ [nanopub_id |-> edge.edge.relation.nanopub_id])]
        subj == keyed_node(edge.edge.subject)
        obj == keyed_node(edge.edge.object)
        linked == edge.edge.relation @@
                    [_from |-> "nodes/" \o subj._key, _to |-> "nodes/" \o obj._key]
        keyed == linked @@ [_key |-> create_hash_from_doc(linked)]
        relation == keyed @@ [edge_dt |-> dt_utc_formatted(now)]
    IN << <<"nodes", subj>>, <<"nodes", obj>>,
          <<"edges", relation_metadata(edge, relation)>> >>

\* The loop body of edge_iterator for one edge at instant now: the three
\* documents it yields, in order.
edge_iterator_body(edge, now) ==
    LET linked == relation_links(edge)
        keyed == linked @@ [_key |-> create_hash_from_doc(linked)]
        relation == keyed @@ [edge_dt |-> dt_utc_formatted(now)]
    IN << <<"nodes", node_doc(edge.edge.subject)>>,
          <<"nodes", node_doc(edge.edge.object)>>,
          <<"edges", relation_metadata(edge, relation)>> >>

\* ----------------------------------------------------------------- inputs
\* The versions listed in versions.json, as get_bel_versions returns them.
bel_versions == {"2.0.0"}

\* str.upper on the type names of the nanopubs.
upper(name) ==
    CASE name = "BEL" -> "BEL"
      [] name = "bel" -> "BEL"
      [] name = "Other" -> "OTHER"

\* The assertion of a nanopub that holds the text of a statement.
assertion_of(ast) ==
    [subject |-> to_string(ast.bel_subject),
     relation |-> ast.bel_relation,
     object |-> IF ast.bel_object.kind = "BELAst"
                  THEN "(" \o to_string(ast.bel_object) \o ")"
                  ELSE to_string(ast.bel_object)]

BadAssertion == [subject |-> "$$!@$", relation |-> "increases", object |-> "p(HGNC:EGF)"]
SubjectOnly == assertion_of(BELAst(act(P_AKT1), None, NoObject))
Increases == assertion_of(BELAst(act(P_AKT1), "increases", P_EGF))
Swapped == assertion_of(BELAst(P_EGF, "increases", act(P_AKT1)))
Canonical == assertion_of(BELAst(act(P_207), "increases", P_EGF))
HasActivity == assertion_of(BELAst(P_207, "hasActivity", act(P_207)))
Nested == assertion_of(BELAst(deg(P_EGF), "decreases",
                              BELAst(P_AKT1, "increases", act(P_EGF))))

Human == <<[type |-> "Species", id |-> "TAX:9606", label |-> "human"]>>
Liver == <<[type |-> "Species", id |-> "TAX:9606", label |-> "human"],
           [type |-> "Tissue", id |-> "UBERON:liver", label |-> "liver"]>>

ToEG == ("HGNC" :> <<"SP", "EG">>)
NoTargets == <<>>

Nanopub(name, version, id, annotations, assertions) ==
    [nanopub |-> [type |-> [name |-> name, version |-> version], id |-> id,
                  annotations |-> annotations, assertions |-> assertions]]

Call(nanopub, namespace_targets, rules, orthologize_target) ==
    [nanopub |-> nanopub, namespace_targets |-> namespace_targets,
     rules |-> rules, orthologize_target |-> orthologize_target]

\* The sequences over S of length lo to hi.
SeqsOf(S, lo, hi) == UNION {[1..n -> S] : n \in lo..hi}

\* Single calls of create_edges: every gate outcome, rule filter, target
\* and assertion list up to MaxAssertions.
SingleCalls ==
    { Call(Nanopub(name, version, "np1", Human, assertions), targets, rules, ortho) :
        name \in {"BEL", "bel", "Other"}, version \in {"2.0.0", "3.0.0"},
        assertions \in SeqsOf({Increases, SubjectOnly, BadAssertion, Nested}, 0, MaxAssertions),
        targets \in {ToEG, NoTargets},
        rules \in {<<>>, <<"skip">>, <<"activity">>, <<"degradation", "skip">>},
        ortho \in {None, "TAX:10090"} }

\* The nanopubs of a pipeline run: statements with the same canonical
\* strings under different nanopub ids, annotations and edge types.
PipelineCalls ==
    { Call(Nanopub("BEL", "2.0.0", "np1", Human, <<Increases>>), ToEG, <<>>, None),
      Call(Nanopub("BEL", "2.0.0", "np2", Liver, <<Canonical>>), ToEG, <<>>, None),
      Call(Nanopub("BEL", "2.0.0", None, Human, <<HasActivity, Swapped>>),
           ToEG, <<"skip">>, None),
      Call(Nanopub("BEL", "2.0.0", "np2", Human, <<BadAssertion, SubjectOnly>>),
           NoTargets, <<"activity">>, "TAX:10090"),
      Call(Nanopub("Other", "2.0.0", "np1", Human, <<Increases>>), ToEG, <<>>, None) }

\* ------------------------------------------------------------------ state
VARIABLES
    inputs,             \* the calls of create_edges the pipeline makes, in order
    k,                  \* calls started so far
    pc,                 \* where the running create_edges is; "idle" when none is
    i,                  \* the assertion of the for loop, 1-based
    nanopub_id,         \* create_edges local
    annotations,        \* create_edges local
    edges,              \* create_edges local
    bel_statement,      \* create_edges local
    bo,                 \* the BEL object create_edges reuses
    computed_edges_ast, \* create_edges local
    ret,                \* what the last create_edges returned (one value: the list)
    log,                \* the lines written with log.error
    calls,              \* the calls create_edges made, in order
    store,              \* the edges collected from the calls, for edge_iterator
    now,                \* the UTC clock
    it_status,          \* the generator: "idle", "running", "raised"
    it_pos,             \* edges of store consumed by the generator
    yielded,            \* the documents yielded by the generator, in order
    emitted             \* every document yielded so far, with its edge and instant

\* enhance_annotations, called on its own.
VARIABLES
    anno_in,            \* the annotations as they were when the call was made
    anno_obj,           \* the caller's list and its dicts, as they are now
    anno_out            \* what enhance_annotations returned; None before the call

anno_vars == << anno_in, anno_obj, anno_out >>

\* add_edge, with the objects it works on: lists and dicts live in a heap
\* and are held by reference.
VARIABLES
    heap,               \* the objects: address -> [refs, vals]
    alias_annotations,  \* the caller's annotations list (an address)
    alias_edges,        \* the caller's edges list: the addresses of its edges
    alias_op,           \* the latest operation on the heap
    alias_changes       \* in-place changes made by the caller so far

alias_vars == << heap, alias_annotations, alias_edges, alias_op, alias_changes >>

\* enhance_function_signatures, called on a specification.
VARIABLES
    spec_dict,          \* the specification being enhanced
    sig_pc,             \* where enhance_function_signatures is; "idle" when not called
    sig_i,              \* signatures of the function entered so far
    arg_n,              \* arguments of the signature classified so far
    req_args,           \* enhance_function_signatures local
    pos_args,           \* enhance_function_signatures local
    opt_args,           \* enhance_function_signatures local
    mult_args           \* enhance_function_signatures local

sig_vars == << spec_dict, sig_pc, sig_i, arg_n, req_args, pos_args, opt_args, mult_args >>

\* get_specification, called on a specifications directory.
VARIABLES
    spec_dir,           \* the directory: versions.json and the bel_v*.json files
    get_pc,             \* where get_specification is; "idle" when not called
    get_version,        \* get_specification argument
    get_versions,       \* get_specification local bel_versions; None before it is read
    get_opened,         \* the files the call has opened, in order
    get_log,            \* the lines the call has written with log.error
    get_ret             \* how the call ended, and with what

get_vars == << spec_dir, get_pc, get_version, get_versions, get_opened, get_log, get_ret >>

\* belspec_yaml2json, called on a specification document.
VARIABLES
    yaml_doc,           \* what yaml.load gives for yaml_fn
    build_dict,         \* belspec_yaml2json local spec_dict
    build_pc,           \* where belspec_yaml2json is; "idle" when not called
    build_n,            \* the entries of info the running loop has passed
    build_steps,        \* the steps that have finished, in order
    json_file,          \* what json_fn holds; None before it is written
    build_ret           \* how the call ended, and with what

build_vars == << yaml_doc, build_dict, build_pc, build_n, build_steps, json_file, build_ret >>

\* BEL.canonicalize and BEL.decanonicalize, called on a parsed statement.
VARIABLES
    canon_targets,      \* the namespace_targets of the calls
    canon_ops,          \* the methods called on the BEL object, in order
    canon_asts          \* bo.ast after the parse and after each call

canon_vars == << canon_targets, canon_ops, canon_asts >>

\* belpy's BEL.parse and BEL.validate, called on a statement.
VARIABLES
    parse_call,         \* the method called, its statement and strict arguments
    parse_pc,           \* where BEL.parse is; "idle" when not called
    parse_statement,    \* BEL.parse local statement
    parse_locals,       \* BEL.parse locals ast, error, err_visual
    parse_printed,      \* what the call has printed
    parse_ret           \* how the call ended, and with what

parse_vars == << parse_call, parse_pc, parse_statement, parse_locals, parse_printed,
                 parse_ret >>

\* create_edges on a nanopub whose lists and dicts are objects.
VARIABLES
    np_heap,            \* the lists and dicts, by address
    np_addr,            \* the address of the nanopub argument
    np_before,          \* what the nanopub held when create_edges was called
    np_call,            \* the other arguments of the call
    np_pc,              \* where create_edges is; "idle" when not called
    np_i,               \* the assertions the loop has passed
    np_id,              \* create_edges local nanopub_id
    np_annotations,     \* the address of create_edges local annotations
    np_edges            \* create_edges local edges: the addresses of its items

frame_vars == << np_heap, np_addr, np_before, np_call, np_pc, np_i, np_id,
                 np_annotations, np_edges >>

\* Processes that import bel_specification and read the specification
\* directory they share.
VARIABLES
    files,              \* the specification directory: what each file holds
    proc                \* each process: where it is and what it was given

proc_vars == << files, proc >>

\* The state of the further functions that are exercised on their own.
further_vars == << build_vars, canon_vars, parse_vars, frame_vars, proc_vars >>

\* The state of the functions that are exercised on their own.
unit_vars == << anno_vars, alias_vars, sig_vars, get_vars, further_vars >>

\* The state of create_edges and edge_iterator.
pipeline_vars == << inputs, k, pc, i, nanopub_id, annotations, edges, bel_statement, bo,
                    computed_edges_ast, ret, log, calls, store, now, it_status, it_pos,
                    yielded, emitted >>

vars == << pipeline_vars, unit_vars >>

create_vars == << i, nanopub_id, annotations, edges, bel_statement, bo,
                  computed_edges_ast, ret, log, calls >>
iter_vars == << now, it_status, it_pos, yielded, emitted >>

call == inputs[k]
nanopub == call.nanopub.nanopub
rules == call.rules

\* No call of enhance_annotations is under way.
AnnoIdle == anno_in = <<>> /\ anno_obj = <<>> /\ anno_out = PyNone

\* No object has been made.
AliasIdle ==
    /\ heap = <<>> /\ alias_annotations = 0 /\ alias_edges = <<>>
    /\ alias_op = [op |-> "none", j |-> 0]
    /\ alias_changes = 0

\* enhance_function_signatures is not called.
SigIdle ==
    /\ spec_dict = [functions |-> [signatures |-> <<>>]]
    /\ sig_pc = "idle" /\ sig_i = 0 /\ arg_n = 0
    /\ req_args = <<>> /\ pos_args = <<>> /\ opt_args = <<>> /\ mult_args = <<>>

\* get_specification is not called.
GetIdle ==
    /\ spec_dir = [versions |-> PyNone, specifications |-> {}]
    /\ get_pc = "idle" /\ get_version = None /\ get_versions = PyNone
    /\ get_opened = <<>> /\ get_log = <<>>
    /\ get_ret = [kind |-> "none", value |-> [none |-> None]]

\* belspec_yaml2json is not called.
BuildIdle ==
    /\ yaml_doc = [version |-> None]
    /\ build_dict = [version |-> None]
    /\ build_pc = "idle" /\ build_n = 0 /\ build_steps = <<>>
    /\ json_file = [version |-> None]
    /\ build_ret = [kind |-> "none", value |-> None]

\* No statement is parsed for canonicalize.
CanonIdle == canon_targets = <<>> /\ canon_ops = <<>> /\ canon_asts = <<>>

\* BEL.parse is not called.
ParseIdle ==
    /\ parse_call = [method |-> "none", statement |-> "", strict |-> FALSE]
    /\ parse_pc = "idle" /\ parse_statement = ""
    /\ parse_locals = [ast |-> None, error |-> None, err_visual |-> None]
    /\ parse_printed = <<>>
    /\ parse_ret = [kind |-> "none"]

\* create_edges is not called on objects.
FrameIdle ==
    /\ np_heap = <<>> /\ np_addr = 0
    /\ np_before = [vals |-> <<>>, items |-> <<>>]
    /\ np_call = [namespace_targets |-> <<>>, rules |-> <<>>, orthologize_target |-> None]
    /\ np_pc = "idle" /\ np_i = 0 /\ np_id = None
    /\ np_annotations = 0 /\ np_edges = <<>>

\* No process runs.
ProcIdle == files = <<>> /\ proc = <<>>

\* None of the further functions is called.
FurtherIdle == BuildIdle /\ CanonIdle /\ ParseIdle /\ FrameIdle /\ ProcIdle

\* None of the functions exercised on their own is.
UnitsIdle == AnnoIdle /\ AliasIdle /\ SigIdle /\ GetIdle /\ FurtherIdle

Start(ins) ==
    /\ inputs \in ins
    /\ k = 0
    /\ pc = "idle"
    /\ i = 0
    /\ nanopub_id = None
    /\ annotations = PyNone
    /\ edges = <<>>
    /\ bel_statement = ""
    /\ bo = BEL
    /\ computed_edges_ast = <<>>
    /\ ret = <<>>
    /\ log = <<>>
    /\ calls = <<>>
    /\ store = <<>>
    /\ now = 0
    /\ it_status = "idle"
    /\ it_pos = 0
    /\ yielded = <<>>
    /\ emitted = {}

\* One call of create_edges on any nanopub.
Init == Start(SeqsOf(SingleCalls, 1, 1)) /\ UnitsIdle

\* A pipeline run over two nanopubs, whose edges go to edge_iterator.
InitStore == Start({<<a, b>> : a \in PipelineCalls, b \in PipelineCalls}) /\ UnitsIdle

\* ----------------------------------------------------------- create_edges
Contains(seq, x) == \E j \in DOMAIN seq : seq[j] = x

Called(op, arg) == [op |-> op, i |-> i, arg |-> arg]

\* A faulty gate: the version of a BEL nanopub is not looked up.
version_gate_any_version(np) ==
    IF upper(np.type.name) = "BEL" THEN "ok" ELSE "not BEL"

\* The gate at the head of create_edges: the type name, then the version.
version_gate(np) ==
    IF upper(np.type.name) = "BEL"
    THEN (IF np.type.version \notin bel_versions THEN "unknown version" ELSE "ok")
    ELSE "not BEL"

\* orthologize_context: the body is a bare pass, so it returns None.
orthologize_context(orthologize_target, annos) == PyNone

\* The gate fails: an error is logged and the empty list returned.
GateReject ==
    /\ pc = "idle" /\ k < Len(inputs)
    /\ version_gate(inputs[k + 1].nanopub.nanopub) # "ok"
    /\ k' = k + 1
    /\ log' = Append(log, version_gate(inputs[k + 1].nanopub.nanopub))
    /\ ret' = << <<>> >>
    /\ store' = store
    /\ calls' = <<>>
    /\ i' = 0 /\ nanopub_id' = None /\ annotations' = PyNone /\ edges' = <<>>
    /\ bel_statement' = "" /\ bo' = BEL /\ computed_edges_ast' = <<>>
    /\ UNCHANGED << inputs, pc >>
    /\ UNCHANGED iter_vars
    /\ UNCHANGED unit_vars

\* A faulty start: the list of the call before is appended to.
edges_kept(previous) == previous

\* edges = []: every call starts with a list of its own.
edges_at_start(previous) == <<>>

\* The gate passes: the locals are set up and the loop is entered.
GateAccept ==
    /\ pc = "idle" /\ k < Len(inputs)
    /\ version_gate(inputs[k + 1].nanopub.nanopub) = "ok"
    /\ k' = k + 1
    /\ LET c == inputs[k + 1]
           np == c.nanopub.nanopub
       IN /\ nanopub_id' = np.id
          /\ annotations' = IF Truthy(c.orthologize_target)
                               THEN orthologize_context(c.orthologize_target,
                                                        PyList(np.annotations))
                               ELSE PyList(np.annotations)
    /\ edges' = edges_at_start(edges)
    /\ bo' = BEL
    /\ i' = 0 /\ bel_statement' = "" /\ computed_edges_ast' = <<>>
    /\ ret' = <<>>
    /\ calls' = <<>>
    /\ pc' = "loop"
    /\ UNCHANGED << inputs, log, store >>
    /\ UNCHANGED iter_vars
    /\ UNCHANGED unit_vars

\* The text handed to the parser for an assertion.
statement_of(assertion) ==
    IF Truthy(assertion.relation)
    THEN assertion.subject \o " " \o assertion.relation \o " " \o assertion.object
    ELSE assertion.subject

\* The head of the for loop: the text of the next assertion.
ForAssertion ==
    /\ pc = "loop" /\ i < Len(nanopub.assertions)
    /\ i' = i + 1
    /\ bel_statement' = statement_of(nanopub.assertions[i + 1])
    /\ pc' = "parse"
    /\ UNCHANGED << inputs, k, nanopub_id, annotations, edges, bo, computed_edges_ast,
                    ret, log, calls, store >>
    /\ UNCHANGED iter_vars
    /\ UNCHANGED unit_vars

\* A faulty check after the parse: the tree is tested, not parse_valid.
after_parse_checks_ast(b) == IF b.ast.kind = "None" THEN "loop" ELSE "canonicalize"

\* The check after bo.parse: an invalid statement continues the loop.
after_parse(b) == IF ~b.parse_valid THEN "loop" ELSE "canonicalize"

\* bo.parse and the check of parse_valid.
Parse ==
    /\ pc = "parse"
    /\ \E stale \in BOOLEAN :
         LET b == IF accepted(bel_statement) THEN parse_ok(bel_statement)
                  ELSE parse_failed(bo, bel_statement, stale)
         IN /\ bo' = b
            /\ pc' = after_parse(b)
            /\ log' = IF after_parse(b) = "loop"
                        THEN Append(log, "Invalid BEL Statement: "
                                         \o join(b.validation_messages, "; "))
                        ELSE log
    /\ calls' = Append(calls, Called("parse", <<bel_statement>>))
    /\ UNCHANGED << inputs, k, i, nanopub_id, annotations, edges, bel_statement,
                    computed_edges_ast, ret, store >>
    /\ UNCHANGED iter_vars
    /\ UNCHANGED unit_vars

\* A faulty step: the statement is always orthologized.
after_canonicalize_always(orthologize_target) == "orthologize"

\* After canonicalize: orthologize only when a target is given.
after_canonicalize(orthologize_target) ==
    IF Truthy(orthologize_target) THEN "orthologize" ELSE "primary"

Canonicalize ==
    /\ pc = "canonicalize"
    /\ bo' = [bo EXCEPT !.ast = canonicalize(bo.ast, call.namespace_targets)]
    /\ calls' = Append(calls, Called("canonicalize", <<>>))
    /\ pc' = after_canonicalize(call.orthologize_target)
    /\ UNCHANGED << inputs, k, i, nanopub_id, annotations, edges, bel_statement,
                    computed_edges_ast, ret, log, store >>
    /\ UNCHANGED iter_vars
    /\ UNCHANGED unit_vars

Orthologize ==
    /\ pc = "orthologize"
    /\ bo' = [bo EXCEPT !.ast = orthologize(bo.ast, call.orthologize_target)]
    /\ calls' = Append(calls, Called("orthologize", <<call.orthologize_target>>))
    /\ pc' = "primary"
    /\ UNCHANGED << inputs, k, i, nanopub_id, annotations, edges, bel_statement,
                    computed_edges_ast, ret, log, store >>
    /\ UNCHANGED iter_vars
    /\ UNCHANGED unit_vars

\* The primary edge: added only for a statement that has a relation.
EmitPrimary ==
    /\ pc = "primary"
    /\ IF Truthy(bo.ast.bel_relation)
       THEN /\ edges' = add_edge(edges, bo.ast, nanopub_id, "primary", annotations)
            /\ calls' = Append(calls, Called("add_edge", <<"primary">>))
       ELSE UNCHANGED << edges, calls >>
    /\ pc' = "compute"
    /\ UNCHANGED << inputs, k, i, nanopub_id, annotations, bel_statement, bo,
                    computed_edges_ast, ret, log, store >>
    /\ UNCHANGED iter_vars
    /\ UNCHANGED unit_vars

\* A faulty filter: any rule list but the empty one disables inference.
wants_computed_only_unfiltered(rs) == rs = <<>>

\* A faulty filter: only the first rule is compared with 'skip'.
wants_computed_first_rule(rs) == rs = <<>> \/ rs[1] # "skip"

\* not rules or 'skip' not in rules
wants_computed(rs) == rs = <<>> \/ ~Contains(rs, "skip")

ComputeEdges ==
    /\ pc = "compute"
    /\ IF wants_computed(rules)
       THEN /\ computed_edges_ast' = compute_edges(bo.ast, rules)
            /\ calls' = Append(calls, Called("compute_edges", rules))
       ELSE /\ computed_edges_ast' = <<>>
            /\ calls' = calls
    /\ pc' = "computed"
    /\ UNCHANGED << inputs, k, i, nanopub_id, annotations, edges, bel_statement, bo,
                    ret, log, store >>
    /\ UNCHANGED iter_vars
    /\ UNCHANGED unit_vars

RECURSIVE emit_computed_as_primary(_, _, _, _)
\* A faulty loop: the computed edges are tagged with the stale edge_type.
emit_computed_as_primary(es, asts, id, annos) ==
    IF asts = <<>> THEN es
    ELSE emit_computed_as_primary(add_edge(es, Head(asts), id, "primary", annos),
                                  Tail(asts), id, annos)

RECURSIVE emit_computed(_, _, _, _)
\* The loop over computed_edges_ast: one computed edge per statement.
emit_computed(es, asts, id, annos) ==
    IF asts = <<>> THEN es
    ELSE emit_computed(add_edge(es, Head(asts), id, "computed", annos),
                       Tail(asts), id, annos)

EmitComputed ==
    /\ pc = "computed"
    /\ edges' = emit_computed(edges, computed_edges_ast, nanopub_id, annotations)
    /\ calls' = calls \o [j \in DOMAIN computed_edges_ast |->
                            Called("add_edge", <<"computed">>)]
    /\ pc' = "loop"
    /\ UNCHANGED << inputs, k, i, nanopub_id, annotations, bel_statement, bo,
                    computed_edges_ast, ret, log, store >>
    /\ UNCHANGED iter_vars
    /\ UNCHANGED unit_vars

\* return edges: the caller collects them for edge_iterator.
Return ==
    /\ pc = "loop" /\ i = Len(nanopub.assertions)
    /\ ret' = <<edges>>
    /\ store' = store \o edges
    /\ pc' = "idle"
    /\ UNCHANGED << inputs, k, i, nanopub_id, annotations, edges, bel_statement, bo,
                    computed_edges_ast, log, calls >>
    /\ UNCHANGED iter_vars
    /\ UNCHANGED unit_vars

\* ---------------------------------------------------------- edge_iterator
\* edge_iterator(edges=store): a new generator.
IterStart ==
    /\ pc = "idle" /\ k = Len(inputs)
    /\ it_status # "running"
    /\ it_status' = "running"
    /\ it_pos' = 0
    /\ yielded' = <<>>
    /\ UNCHANGED << inputs, k, pc, store, now, emitted >>
    /\ UNCHANGED create_vars
    /\ UNCHANGED unit_vars

\* One pass of the loop body: the three documents of the next edge.
IterEdge ==
    /\ it_status = "running" /\ it_pos < Len(store)
    /\ LET docs == edge_iterator_body(store[it_pos + 1], now)
       IN /\ yielded' = yielded \o docs
          /\ emitted' = emitted \cup
                { [coll |-> docs[j][1], doc |-> docs[j][2], role |-> j,
                   edge |-> it_pos + 1, at |-> now] : j \in 1..3 }
    /\ it_pos' = it_pos + 1
    /\ UNCHANGED << inputs, k, pc, store, now, it_status >>
    /\ UNCHANGED create_vars
    /\ UNCHANGED unit_vars

\* The list is exhausted and the chain moves on to files.read_edges(None),
\* whose first statement, 'jsonl' in fn, raises TypeError.
IterExhausted ==
    /\ it_status = "running" /\ it_pos = Len(store)
    /\ it_status' = "raised"
    /\ UNCHANGED << inputs, k, pc, store, now, it_pos, yielded, emitted >>
    /\ UNCHANGED create_vars
    /\ UNCHANGED unit_vars

\* Time passes.
Tick ==
    /\ pc = "idle" /\ k = Len(inputs)
    /\ now < MaxClock
    /\ now' = now + 1
    /\ UNCHANGED << inputs, k, pc, store, it_status, it_pos, yielded, emitted >>
    /\ UNCHANGED create_vars
    /\ UNCHANGED unit_vars

\* The steps of create_edges.
NextCreate ==
    \/ GateReject \/ GateAccept \/ ForAssertion \/ Parse \/ Canonicalize
    \/ Orthologize \/ EmitPrimary \/ ComputeEdges \/ EmitComputed \/ Return

\* The steps of create_edges and of edge_iterator.
Next ==
    \/ NextCreate
    \/ IterStart \/ IterEdge \/ IterExhausted \/ Tick

\* create_edges alone, on every input of SingleCalls.
Spec == Init /\ [][NextCreate]_vars

\* The same call of create_edges made twice, on every input of SingleCalls.
InitTwice == Start({<<a, a>> : a \in SingleCalls}) /\ UnitsIdle

SpecTwice == InitTwice /\ [][NextCreate]_vars

\* The pipeline: create_edges on each nanopub, then edge_iterator on the
\* collected edges, any number of times, while the clock runs.
SpecStore == InitStore /\ [][Next]_vars
\* ------------------------------------------------------ enhance_annotations
\* The pipeline stands still while a function is exercised on its own.
PipelineIdle == Start({<<>>})

\* The annotations enhance_annotations may meet: each of type, id and label
\* absent, empty or set.
AnnotationForms ==
    UNION { [keys -> {"", "x"}] : keys \in SUBSET {"type", "id", "label"} }

\* The value given to a key: an annotation's type is its own, its id and
\* label are told apart.
AnnotationValue(key, v) ==
    IF v = "" THEN ""
    ELSE CASE key = "type" -> "Species"
           [] key = "id" -> "TAX:9606"
           [] key = "label" -> "human"

Annotations ==
    { [key \in DOMAIN form |-> AnnotationValue(key, form[key])] : form \in AnnotationForms }

\* anno.get(key, False), tested for truth.
has(anno, key) == key \in DOMAIN anno /\ Truthy(anno[key])

\* anno[key] = value
set_item(anno, key, value) ==
    [f \in DOMAIN anno \cup {key} |-> IF f = key THEN value ELSE anno[f]]

\* The two continue statements: an annotation without a type, and one with
\* both id and label, are not appended.
appended(anno) ==
    IF ~has(anno, "type") THEN FALSE
    ELSE IF has(anno, "id") /\ has(anno, "label") THEN FALSE
    ELSE TRUE

\* A faulty backfill: the missing key is left missing.
backfill_nothing(anno) == anno

\* The two assignments: the id is taken from the label, or the label from
\* the id, in the annotation itself.
backfill(anno) ==
    IF ~appended(anno) THEN anno
    ELSE IF has(anno, "label") /\ ~has(anno, "id") THEN set_item(anno, "id", anno["label"])
    ELSE IF has(anno, "id") /\ ~has(anno, "label") THEN set_item(anno, "label", anno["id"])
    ELSE anno

\* enhance_annotations: the list new it returns.
enhance_annotations(annos) ==
    LET filled == [j \in DOMAIN annos |-> backfill(annos[j])]
        chosen == SelectSeq([j \in DOMAIN annos |-> j], LAMBDA j : appended(annos[j]))
    IN [n \in DOMAIN chosen |-> filled[chosen[n]]]

\* The call: new is returned, and the dicts of the caller's list that were
\* backfilled have changed.
EnhanceAnnotations ==
    /\ anno_out = PyNone
    /\ anno_out' = PyList(enhance_annotations(anno_obj))
    /\ anno_obj' = [j \in DOMAIN anno_obj |-> backfill(anno_obj[j])]
    /\ UNCHANGED anno_in
    /\ UNCHANGED pipeline_vars
    /\ UNCHANGED alias_vars
    /\ UNCHANGED sig_vars
    /\ UNCHANGED get_vars
    /\ UNCHANGED further_vars

InitAnnotations ==
    /\ PipelineIdle
    /\ AliasIdle
    /\ SigIdle
    /\ GetIdle
    /\ FurtherIdle
    /\ anno_in \in SeqsOf(Annotations, 0, MaxAnnotations)
    /\ anno_obj = anno_in
    /\ anno_out = PyNone

\* enhance_annotations on every list of up to MaxAnnotations annotations.
SpecAnnotations == InitAnnotations /\ [][EnhanceAnnotations]_vars

\* ------------------------------------------------- add_edge and its objects
\* A list or a dict: the objects it refers to, and its immutable values.
Cell(refs, vals) == [refs |-> refs, vals |-> vals]

\* A faulty copy: the object itself is handed back.
copy_by_reference(h, a) == [heap |-> h, addr |-> a]

\* copy.deepcopy: a new object for the object at a and for every object it
\* reaches; the new objects are added to the heap.
RECURSIVE deepcopy(_, _), deepcopy_refs(_, _)
deepcopy(h, a) ==
    LET below == deepcopy_refs(h, h[a].refs)
    IN [heap |-> Append(below.heap, Cell(below.refs, h[a].vals)),
        addr |-> Len(below.heap) + 1]

deepcopy_refs(h, refs) ==
    IF refs = <<>> THEN [heap |-> h, refs |-> <<>>]
    ELSE LET first == deepcopy(h, refs[1])
             rest == deepcopy_refs(first.heap, Tail(refs))
         IN [heap |-> rest.heap, refs |-> <<first.addr>> \o rest.refs]

\* add_edge on the heap: two new component lists, the edge dict that holds
\* them and the caller's annotations list, and its deep copy appended to
\* the edges list.  The nested dicts of the edge are made in the call and
\* are one object here.
add_edge_objects(h, es, edge_ast, id, edge_type, annos) ==
    LET doc == add_edge(<<>>, edge_ast, id, edge_type, PyNone)[1].edge
        subj_components == Len(h) + 1
        obj_components == Len(h) + 2
        edge == Len(h) + 3
        built == h \o << Cell(<<>>, doc.subject.components),
                         Cell(<<>>, doc.object.components),
                         Cell(<<annos, subj_components, obj_components>>,
                              << doc.relation.subject_canon, doc.relation.relation,
                                 doc.relation.object_canon, doc.relation.edge_hash,
                                 id, edge_type >>) >>
        copied == deepcopy(built, edge)
    IN [heap |-> copied.heap, edges |-> Append(es, copied.addr)]

\* The objects reached from an object, itself included.
RECURSIVE Reachable(_, _)
Reachable(h, as) ==
    LET more == as \cup UNION { {h[a].refs[n] : n \in DOMAIN h[a].refs} : a \in as }
    IN IF more = as THEN as ELSE Reachable(h, more)

\* What a reader of the object at a sees.
RECURSIVE View(_, _)
View(h, a) == [vals |-> h[a].vals,
               items |-> [n \in DOMAIN h[a].refs |-> View(h, h[a].refs[n])]]

\* An in-place change of a list or a dict: its content is replaced.
mutate(h, a) == [h EXCEPT ![a] = Cell(<<>>, <<"mutated">>)]

\* The statements add_edge is given: canonicalized, with a relation.
EdgeAsts ==
    { canonicalize(parse_ok(statement_of(a)).ast, ToEG) : a \in {Increases, Nested} }

\* The heap before the first call: the annotation dicts and their list.
annotation_objects(annos) ==
    [n \in DOMAIN annos |-> Cell(<<>>, <<annos[n].type, annos[n].id, annos[n].label>>)]
        \o << Cell([n \in DOMAIN annos |-> n], <<>>) >>

\* One call of add_edge with the caller's edges and annotations, as
\* create_edges makes them: a primary edge, then computed ones.
AddEdge ==
    /\ Len(alias_edges) < MaxEdges
    /\ \E edge_ast \in EdgeAsts :
          LET edge_type == IF alias_edges = <<>> THEN "primary" ELSE "computed"
              r == add_edge_objects(heap, alias_edges, edge_ast, "np1", edge_type,
                                    alias_annotations)
          IN /\ heap' = r.heap
             /\ alias_edges' = r.edges
    /\ alias_op' = [op |-> "add_edge", j |-> Len(alias_edges) + 1]
    /\ UNCHANGED << alias_annotations, alias_changes >>
    /\ UNCHANGED pipeline_vars
    /\ UNCHANGED anno_vars
    /\ UNCHANGED sig_vars
    /\ UNCHANGED get_vars
    /\ UNCHANGED further_vars

\* The caller changes its annotations list, or one of the dicts in it.
MutateAnnotations ==
    /\ alias_changes < MaxChanges
    /\ alias_changes' = alias_changes + 1
    /\ \E a \in Reachable(heap, {alias_annotations}) :
          /\ heap[a] # Cell(<<>>, <<"mutated">>)
          /\ heap' = mutate(heap, a)
    /\ alias_op' = [op |-> "mutate_annotations", j |-> 0]
    /\ UNCHANGED << alias_annotations, alias_edges >>
    /\ UNCHANGED pipeline_vars
    /\ UNCHANGED anno_vars
    /\ UNCHANGED sig_vars
    /\ UNCHANGED get_vars
    /\ UNCHANGED further_vars

\* The caller changes an edge of its list, or a list or dict inside it.
MutateEdge ==
    /\ alias_changes < MaxChanges
    /\ alias_changes' = alias_changes + 1
    /\ \E j \in DOMAIN alias_edges :
          /\ \E a \in Reachable(heap, {alias_edges[j]}) :
                /\ heap[a] # Cell(<<>>, <<"mutated">>)
                /\ heap' = mutate(heap, a)
          /\ alias_op' = [op |-> "mutate_edge", j |-> j]
    /\ UNCHANGED << alias_annotations, alias_edges >>
    /\ UNCHANGED pipeline_vars
    /\ UNCHANGED anno_vars
    /\ UNCHANGED sig_vars
    /\ UNCHANGED get_vars
    /\ UNCHANGED further_vars

InitAlias ==
    /\ PipelineIdle
    /\ AnnoIdle
    /\ SigIdle
    /\ GetIdle
    /\ FurtherIdle
    /\ \E annos \in {<<>>, Human, Liver} :
          /\ heap = annotation_objects(annos)
          /\ alias_annotations = Len(annos) + 1
    /\ alias_edges = <<>>
    /\ alias_op = [op |-> "none", j |-> 0]
    /\ alias_changes = 0

\* add_edge called up to MaxEdges times with the same annotations list,
\* the caller changing its objects in between and afterwards.
SpecAlias == InitAlias /\ [][AddEdge \/ MutateAnnotations \/ MutateEdge]_vars

\* ----------------------------------------------- enhance_function_signatures
\* A string where a list may also stand.
PyStr(str) == [py |-> "str", str |-> str]

\* An argument of a signature; a flag that is absent reads as False.
Argument(type, multiple, optional, position, values) ==
    [type |-> type, multiple |-> multiple, optional |-> optional,
     position |-> position, values |-> values]

\* The argument types of the BEL specification.
FunctionTypes == {"Function", "Modifier"}
ArgTypes == {"StrArgNSArg", "NSArg", "StrArg"}

\* Every argument: each type with each setting of the three flags, the
\* values of a function argument absent, empty or given.
Arguments ==
    { Argument(type, multiple, optional, position, values) :
        type \in FunctionTypes, multiple \in BOOLEAN, optional \in BOOLEAN,
        position \in BOOLEAN,
        values \in {PyNone, PyList(<<>>), PyList(<<"fus", "var">>)} }
    \cup
    { Argument(type, multiple, optional, position, PyList(<<"Protein">>)) :
        type \in ArgTypes, multiple \in BOOLEAN, optional \in BOOLEAN,
        position \in BOOLEAN }

\* The signatures of a function: one that holds any argument, alone, after
\* a required argument or before a repeated one, and a second signature.
SignatureLists ==
    LET required == Argument("NSArg", FALSE, FALSE, FALSE, PyList(<<"Protein">>))
        repeated == Argument("Modifier", TRUE, TRUE, FALSE, PyList(<<"loc", "pmod">>))
    IN { << [arguments |-> arguments], [arguments |-> <<required, repeated>>] >> :
            arguments \in { <<arg>> : arg \in Arguments }
                          \cup { <<required, arg>> : arg \in Arguments }
                          \cup { <<arg, repeated>> : arg \in Arguments } }

\* arg.get('values', [])
get_values(arg) == IF arg.values.py = "None" THEN <<>> ELSE arg.values.items

\* list.extend(values) and list.append(x)
extend(list, values) == list \o [n \in DOMAIN values |-> PyStr(values[n])]

\* What an argument adds to the list of its class: the values one by one
\* (extend), the list of values, or the name of the type (append).
extended(list, arg) ==
    IF arg.type \in FunctionTypes THEN extend(list, get_values(arg))
    ELSE IF arg.type \in ArgTypes THEN Append(list, PyStr(arg.type))
    ELSE list

appended_to(list, arg) ==
    IF arg.type \in FunctionTypes THEN Append(list, PyList(get_values(arg)))
    ELSE IF arg.type \in ArgTypes THEN Append(list, PyStr(arg.type))
    ELSE list

\* A faulty loop body: an optional argument with a position is also put
\* with the optional arguments without one.
classify_optional_twice(lists, arg) ==
    IF arg.multiple
    THEN [lists EXCEPT !.mult_args = extended(@, arg)]
    ELSE IF arg.optional /\ arg.position
    THEN [lists EXCEPT !.pos_args = appended_to(@, arg), !.opt_args = extended(@, arg)]
    ELSE IF arg.optional
    THEN [lists EXCEPT !.opt_args = extended(@, arg)]
    ELSE [lists EXCEPT !.req_args = appended_to(@, arg)]

\* The body of the loop over the arguments: the four lists after arg.
classify(lists, arg) ==
    IF arg.multiple
    THEN [lists EXCEPT !.mult_args = extended(@, arg)]
    ELSE IF arg.optional /\ arg.position
    THEN [lists EXCEPT !.pos_args = appended_to(@, arg)]
    ELSE IF arg.optional
    THEN [lists EXCEPT !.opt_args = extended(@, arg)]
    ELSE [lists EXCEPT !.req_args = appended_to(@, arg)]

\* The signatures of the one function of the specification.
signatures_of(spec) == spec.functions.signatures

\* for i, sig in enumerate(...): the four lists start empty.
NextSignature ==
    /\ sig_pc = "signatures" /\ sig_i < Len(signatures_of(spec_dict))
    /\ sig_i' = sig_i + 1
    /\ arg_n' = 0
    /\ req_args' = <<>> /\ pos_args' = <<>> /\ opt_args' = <<>> /\ mult_args' = <<>>
    /\ sig_pc' = "arguments"
    /\ UNCHANGED spec_dict
    /\ UNCHANGED pipeline_vars
    /\ UNCHANGED << anno_vars, alias_vars, get_vars >>
    /\ UNCHANGED further_vars

\* for arg in args: the argument goes to the list of its class.
ClassifyArgument ==
    /\ sig_pc = "arguments"
    /\ arg_n < Len(signatures_of(spec_dict)[sig_i].arguments)
    /\ LET arg == signatures_of(spec_dict)[sig_i].arguments[arg_n + 1]
           lists == classify([req_args |-> req_args, pos_args |-> pos_args,
                              opt_args |-> opt_args, mult_args |-> mult_args], arg)
       IN /\ req_args' = lists.req_args
          /\ pos_args' = lists.pos_args
          /\ opt_args' = lists.opt_args
          /\ mult_args' = lists.mult_args
    /\ arg_n' = arg_n + 1
    /\ UNCHANGED << spec_dict, sig_pc, sig_i >>
    /\ UNCHANGED pipeline_vars
    /\ UNCHANGED << anno_vars, alias_vars, get_vars >>
    /\ UNCHANGED further_vars

\* The four lists are stored in the signature.
StoreArguments ==
    /\ sig_pc = "arguments"
    /\ arg_n = Len(signatures_of(spec_dict)[sig_i].arguments)
    /\ spec_dict' =
          [spec_dict EXCEPT !.functions.signatures[sig_i] =
              @ @@ [req_args |-> req_args, pos_args |-> pos_args,
                    opt_args |-> opt_args, mult_args |-> mult_args]]
    /\ sig_pc' = "signatures"
    /\ UNCHANGED << sig_i, arg_n, req_args, pos_args, opt_args, mult_args >>
    /\ UNCHANGED pipeline_vars
    /\ UNCHANGED << anno_vars, alias_vars, get_vars >>
    /\ UNCHANGED further_vars

\* return spec_dict
ReturnSignatures ==
    /\ sig_pc = "signatures" /\ sig_i = Len(signatures_of(spec_dict))
    /\ sig_pc' = "returned"
    /\ UNCHANGED << spec_dict, sig_i, arg_n, req_args, pos_args, opt_args, mult_args >>
    /\ UNCHANGED pipeline_vars
    /\ UNCHANGED << anno_vars, alias_vars, get_vars >>
    /\ UNCHANGED further_vars

InitSignatures ==
    /\ PipelineIdle /\ AnnoIdle /\ AliasIdle /\ GetIdle /\ FurtherIdle
    /\ \E signatures \in SignatureLists :
          spec_dict = [functions |-> [signatures |-> signatures]]
    /\ sig_pc = "signatures" /\ sig_i = 0 /\ arg_n = 0
    /\ req_args = <<>> /\ pos_args = <<>> /\ opt_args = <<>> /\ mult_args = <<>>

\* enhance_function_signatures on a specification whose function has any
\* argument in one of its signatures.
SpecSignatures ==
    InitSignatures
    /\ [][NextSignature \/ ClassifyArgument \/ StoreArguments \/ ReturnSignatures]_vars

\* --------------------------------------------------------- get_specification
\* The versions a specification may have, and str.replace('.', '_') on them.
Versions == {"1.0.0", "2.0.0", "3.0.0"}

version_underscored(version) ==
    CASE version = "1.0.0" -> "1_0_0"
      [] version = "2.0.0" -> "2_0_0"
      [] version = "3.0.0" -> "3_0_0"

\* The name of the enhanced JSON file of a version.
json_fn(version) == "bel_v" \o version_underscored(version) \o ".json"

\* What the enhanced JSON file of a version holds: a specification with
\* its relations and functions tables.
specification_file(version) ==
    [version |-> version,
     relations |-> [list |-> <<"increases", "->">>],
     functions |-> [list |-> <<"proteinAbundance", "p">>]]

\* The directories: versions.json missing or listing some versions, and
\* the JSON files of any versions, listed or not.
SpecDirs ==
    { [versions |-> versions, specifications |-> present] :
        versions \in {PyNone} \cup { PyList(list) : list \in SeqsOf(Versions, 0, 1) }
                    \cup { PyList(<<"1.0.0", "2.0.0">>), PyList(<<"2.0.0", "1.0.0">>) },
        present \in SUBSET Versions }

\* The elements of a list.
Elements(list) == {list[n] : n \in DOMAIN list}

\* A faulty test: every version is taken for a known one.
unknown_version_never(version, versions) == FALSE

\* version not in bel_versions
unknown_version(version, versions) == version \notin Elements(versions)

\* The call, with any version.
GetSpecification ==
    /\ get_pc = "idle"
    /\ \E version \in Versions : get_version' = version
    /\ get_pc' = "get_bel_versions"
    /\ UNCHANGED << spec_dir, get_versions, get_opened, get_log, get_ret >>
    /\ UNCHANGED pipeline_vars
    /\ UNCHANGED << anno_vars, alias_vars, sig_vars >>
    /\ UNCHANGED further_vars

\* get_bel_versions: versions.json is opened and read; open raises
\* FileNotFoundError when there is no such file.
GetBelVersions ==
    /\ get_pc = "get_bel_versions"
    /\ get_opened' = Append(get_opened, "versions.json")
    /\ IF spec_dir.versions.py = "None"
       THEN /\ get_pc' = "raised"
            /\ get_ret' = [kind |-> "raised", value |-> [exception |-> "FileNotFoundError"]]
            /\ UNCHANGED get_versions
       ELSE /\ get_pc' = "check"
            /\ get_versions' = spec_dir.versions
            /\ UNCHANGED get_ret
    /\ UNCHANGED << spec_dir, get_version, get_log >>
    /\ UNCHANGED pipeline_vars
    /\ UNCHANGED << anno_vars, alias_vars, sig_vars >>
    /\ UNCHANGED further_vars

\* The version is not in the list: an error is logged and a dict with the
\* key 'error' returned.
UnknownVersion ==
    /\ get_pc = "check"
    /\ unknown_version(get_version, get_versions.items)
    /\ get_log' = Append(get_log, "Cannot get unknown version BEL specification")
    /\ get_ret' = [kind |-> "returned", value |-> [error |-> "unknown version of BEL"]]
    /\ get_pc' = "returned"
    /\ UNCHANGED << spec_dir, get_version, get_versions, get_opened >>
    /\ UNCHANGED pipeline_vars
    /\ UNCHANGED << anno_vars, alias_vars, sig_vars >>
    /\ UNCHANGED further_vars

\* The version is in the list: its JSON file is opened and loaded; open
\* raises FileNotFoundError when there is no such file.
LoadSpecification ==
    /\ get_pc = "check"
    /\ ~unknown_version(get_version, get_versions.items)
    /\ get_opened' = Append(get_opened, json_fn(get_version))
    /\ IF get_version \in spec_dir.specifications
       THEN /\ get_pc' = "returned"
            /\ get_ret' = [kind |-> "returned", value |-> specification_file(get_version)]
       ELSE /\ get_pc' = "raised"
            /\ get_ret' = [kind |-> "raised", value |-> [exception |-> "FileNotFoundError"]]
    /\ UNCHANGED << spec_dir, get_version, get_versions, get_log >>
    /\ UNCHANGED pipeline_vars
    /\ UNCHANGED << anno_vars, alias_vars, sig_vars >>
    /\ UNCHANGED further_vars

InitGetSpecification ==
    /\ PipelineIdle /\ AnnoIdle /\ AliasIdle /\ SigIdle /\ FurtherIdle
    /\ spec_dir \in SpecDirs
    /\ get_pc = "idle" /\ get_version = None /\ get_versions = PyNone
    /\ get_opened = <<>> /\ get_log = <<>>
    /\ get_ret = [kind |-> "none", value |-> [none |-> None]]

\* One call of get_specification, with any version, on any directory.
SpecGetSpecification ==
    InitGetSpecification
    /\ [][GetSpecification \/ GetBelVersions \/ UnknownVersion \/ LoadSpecification]_vars

\* --------------------------------------------------------- belspec_yaml2json
\* An entry of relations.info and one of functions.info: the long name is
\* the key of the entry.
Relation(name, abbreviation) == [name |-> name, abbreviation |-> abbreviation]
FunctionInfo(name, abbreviation, type) ==
    [name |-> name, abbreviation |-> abbreviation, type |-> type]

\* The entries of a dict, in order: the keys differ.
DictsOf(entries, hi) ==
    { info \in SeqsOf(entries, 0, hi) :
        \A m, n \in DOMAIN info : m # n => info[m].name # info[n].name }

\* The relations and the functions of a document: an abbreviation may be
\* the long name itself, the long name of another entry, or the
\* abbreviation of another entry.
RelationInfos ==
    DictsOf({ Relation("increases", abbreviation) : abbreviation \in {"->", "increases"} }
            \cup { Relation("decreases", abbreviation) :
                      abbreviation \in {"-|", "->", "increases"} }, 2)

FunctionInfos ==
    DictsOf({ FunctionInfo("proteinAbundance", "p", "primary") }
            \cup { FunctionInfo("activity", abbreviation, type) :
                      abbreviation \in {"act", "p"}, type \in {"primary", "modifier"} }, 2)

\* The argument of the one signature, where a function has one: a function
\* by its long name, a modifier without values, a namespace argument.
HelpArguments ==
    { Argument("Function", FALSE, FALSE, FALSE, PyList(<<"activity">>)),
      Argument("Modifier", TRUE, TRUE, FALSE, PyNone),
      Argument("NSArg", FALSE, TRUE, TRUE, PyList(<<"Protein">>)) }

\* functions.signatures: the first function of info has a signature with
\* one argument, or none has.
SignatureDicts(info) ==
    {<<>>} \cup
    IF info = <<>> THEN {}
    ELSE { << [func |-> info[1].name, signatures |-> <<[arguments |-> <<arg>>]>>] >> :
              arg \in HelpArguments }

\* The documents yaml.load gives, and the file it cannot read.
Unreadable == [unreadable |-> "yaml"]

YamlDocs ==
    { [version |-> "2.0.0",
       relations |-> [info |-> relations],
       functions |-> [info |-> functions, signatures |-> signatures],
       namespaces |-> << [ns |-> "Activity",
                          info |-> <<Relation("kinaseActivity", "kin")>>] >>] :
        relations \in RelationInfos,
        functions \in FunctionInfos,
        signatures \in UNION { SignatureDicts(info) : info \in FunctionInfos } }

\* The keys add_relations and add_functions start with.
EmptyTables ==
    [list |-> <<>>, list_short |-> <<>>, list_long |-> <<>>,
     to_short |-> <<>>, to_long |-> <<>>]

EmptyPartition == [list_long |-> <<>>, list_short |-> <<>>]

\* A faulty loop body: the long name is not mapped to itself.
add_relation_without_long(relations, relation_name, abbreviated_name) ==
    [relations EXCEPT
        !.list = @ \o <<relation_name, abbreviated_name>>,
        !.list_long = Append(@, relation_name),
        !.list_short = Append(@, abbreviated_name),
        !.to_short = set_item(set_item(@, relation_name, abbreviated_name),
                              abbreviated_name, abbreviated_name),
        !.to_long = set_item(@, abbreviated_name, relation_name)]

\* The body of the loop of add_relations.
add_relation(relations, relation_name, abbreviated_name) ==
    [relations EXCEPT
        !.list = @ \o <<relation_name, abbreviated_name>>,
        !.list_long = Append(@, relation_name),
        !.list_short = Append(@, abbreviated_name),
        !.to_short = set_item(set_item(@, relation_name, abbreviated_name),
                              abbreviated_name, abbreviated_name),
        !.to_long = set_item(set_item(@, abbreviated_name, relation_name),
                             relation_name, relation_name)]

\* The body of the loop of add_functions.
add_function(functions, func_name, abbreviated_name) ==
    LET type == (CHOOSE f \in Elements(functions.info) : f.name = func_name).type
        listed == [functions EXCEPT
            !.list = @ \o <<func_name, abbreviated_name>>,
            !.list_long = Append(@, func_name),
            !.list_short = Append(@, abbreviated_name)]
        parted == IF type = "primary"
                  THEN [listed EXCEPT !.primary.list_long = Append(@, func_name),
                                      !.primary.list_short = Append(@, abbreviated_name)]
                  ELSE [listed EXCEPT !.modifier.list_long = Append(@, func_name),
                                      !.modifier.list_short = Append(@, abbreviated_name)]
    IN [parted EXCEPT
          !.to_short = set_item(set_item(@, abbreviated_name, abbreviated_name),
                                func_name, abbreviated_name),
          !.to_long = set_item(set_item(@, abbreviated_name, func_name),
                               func_name, func_name)]

\* add_namespaces: the tables of one namespace.
RECURSIVE namespace_tables(_, _)
namespace_tables(tables, info) ==
    IF info = <<>> THEN tables
    ELSE namespace_tables(
            [tables EXCEPT
                !.list = @ \o <<info[1].name, info[1].abbreviation>>,
                !.list_short = Append(@, info[1].abbreviation),
                !.list_long = Append(@, info[1].name),
                !.to_short = set_item(set_item(@, info[1].abbreviation, info[1].abbreviation),
                                      info[1].name, info[1].abbreviation),
                !.to_long = set_item(set_item(@, info[1].abbreviation, info[1].name),
                                     info[1].name, info[1].name)],
            Tail(info))

add_namespaces(namespaces) ==
    [n \in DOMAIN namespaces |->
        namespace_tables(EmptyTables @@ namespaces[n], namespaces[n].info)]

\* enhance_function_signatures: the four lists of every signature.
RECURSIVE classify_all(_, _)
classify_all(lists, args) ==
    IF args = <<>> THEN lists ELSE classify_all(classify(lists, args[1]), Tail(args))

enhance_function_signatures(signatures) ==
    [f \in DOMAIN signatures |->
        [signatures[f] EXCEPT !.signatures =
            [n \in DOMAIN @ |->
                classify_all([req_args |-> <<>>, pos_args |-> <<>>,
                              opt_args |-> <<>>, mult_args |-> <<>>],
                             @[n].arguments) @@ @[n]]]]

\* add_function_signature_help: what an argument adds to the summary.
argument_mark(arg) ==
    IF arg.optional /\ ~arg.multiple THEN "?" ELSE IF arg.optional THEN "*" ELSE ""

argument_summary(functions, arg) ==
    IF arg.type \in FunctionTypes
    THEN join([n \in DOMAIN arg.values.items |-> functions.to_short[arg.values.items[n]]], "|")
         \o "()" \o argument_mark(arg)
    ELSE arg.type \o argument_mark(arg)

\* The help text of an argument.
argument_text(arg) ==
    LET count == IF arg.optional /\ ~arg.multiple THEN "Zero or one "
                 ELSE IF arg.optional THEN "Zero or more " ELSE "One "
        what == CASE arg.type \in FunctionTypes -> "of function(s): "
                  [] arg.type = "NSArg" -> "namespace argument of type(s): "
                  [] arg.type = "StrArgNSArg" -> "namespace or default namespace argument of type(s): "
                  [] OTHER -> "string argument of type(s): "
    IN count \o what \o join(arg.values.items, ", ")

\* The exception an argument ends the help with, "" when it ends it with
\* none: arg['values'] of an argument without values is a KeyError, and
\* the join of a function name that to_short does not hold a TypeError.
argument_error(functions, arg) ==
    IF arg.values.py = "None" THEN "KeyError"
    ELSE IF /\ arg.type \in FunctionTypes
            /\ \E val \in Elements(arg.values.items) : val \notin DOMAIN functions.to_short
    THEN "TypeError"
    ELSE ""

\* The arguments of all signatures, in the order of the loops.
RECURSIVE Flatten(_)
Flatten(seqs) == IF seqs = <<>> THEN <<>> ELSE seqs[1] \o Flatten(Tail(seqs))

all_arguments(signatures) ==
    Flatten([f \in DOMAIN signatures |->
        Flatten([n \in DOMAIN signatures[f].signatures |->
            signatures[f].signatures[n].arguments])])

help_error(functions) ==
    LET errors == SelectSeq([n \in DOMAIN all_arguments(functions.signatures) |->
                                argument_error(functions, all_arguments(functions.signatures)[n])],
                            LAMBDA e : e # "")
    IN IF errors = <<>> THEN "" ELSE errors[1]

add_function_signature_help(functions) ==
    [functions EXCEPT !.signatures =
        [f \in DOMAIN @ |->
            [@[f] EXCEPT !.signatures =
                [n \in DOMAIN @ |->
                    [argument_summary |->
                        functions.signatures[f].func \o "(" \o
                        join([m \in DOMAIN @[n].arguments |->
                                argument_summary(functions, @[n].arguments[m])], ", ") \o ")",
                     argument_help_listing |->
                        [m \in DOMAIN @[n].arguments |-> argument_text(@[n].arguments[m])]]
                    @@ @[n]]]]]

\* The steps of belspec_yaml2json leave every other function alone.
BuildFrame ==
    /\ UNCHANGED pipeline_vars
    /\ UNCHANGED << anno_vars, alias_vars, sig_vars, get_vars >>
    /\ UNCHANGED << canon_vars, parse_vars, frame_vars, proc_vars >>

\* A faulty order: the file is written before the help is added.
after_dumps_early(step) ==
    CASE step = "admin" -> "add_relations"
      [] step = "add_relations" -> "add_functions"
      [] step = "add_functions" -> "add_namespaces"
      [] step = "add_namespaces" -> "enhance_function_signatures"
      [] step = "enhance_function_signatures" -> "dump"
      [] step = "add_function_signature_help" -> "dump"
      [] step = "json.dump" -> "returned"

\* The statement that follows a step of belspec_yaml2json.
after(step) ==
    CASE step = "admin" -> "add_relations"
      [] step = "add_relations" -> "add_functions"
      [] step = "add_functions" -> "add_namespaces"
      [] step = "add_namespaces" -> "enhance_function_signatures"
      [] step = "enhance_function_signatures" -> "add_function_signature_help"
      [] step = "add_function_signature_help" -> "dump"
      [] step = "json.dump" -> "returned"

\* A step has finished: it is noted, and the next statement follows.
Finished(step) ==
    /\ build_steps' = Append(build_steps, step)
    /\ build_pc' = after(step)

\* yaml.load and the admin keys; a file that cannot be read ends the call
\* in the handler.
LoadYaml ==
    /\ build_pc = "load"
    /\ IF yaml_doc = Unreadable
       THEN /\ build_pc' = "raised"
            /\ build_ret' = [kind |-> "raised", value |-> "KeyError"]
            /\ UNCHANGED << build_dict, build_steps >>
       ELSE /\ build_dict' = [admin |-> [version_underscored |-> version_underscored(yaml_doc.version),
                                         parser_fn |-> "bel_v2_0_0_parser.py"]] @@ yaml_doc
            /\ Finished("admin")
            /\ UNCHANGED build_ret
    /\ UNCHANGED << yaml_doc, build_n, json_file >>
    /\ BuildFrame

\* add_relations: the empty keys, one pass of the loop, the return.
AddRelationsStart ==
    /\ build_pc = "add_relations"
    /\ build_dict' = [build_dict EXCEPT !.relations = EmptyTables @@ @]
    /\ build_n' = 0
    /\ build_pc' = "for relation_name"
    /\ UNCHANGED << yaml_doc, build_steps, json_file, build_ret >>
    /\ BuildFrame

AddRelation ==
    /\ build_pc = "for relation_name"
    /\ build_n < Len(build_dict.relations.info)
    /\ LET entry == build_dict.relations.info[build_n + 1]
       IN build_dict' = [build_dict EXCEPT !.relations =
                            add_relation(@, entry.name, entry.abbreviation)]
    /\ build_n' = build_n + 1
    /\ UNCHANGED << yaml_doc, build_pc, build_steps, json_file, build_ret >>
    /\ BuildFrame

AddRelationsReturn ==
    /\ build_pc = "for relation_name"
    /\ build_n = Len(build_dict.relations.info)
    /\ Finished("add_relations")
    /\ UNCHANGED << yaml_doc, build_dict, build_n, json_file, build_ret >>
    /\ BuildFrame

\* add_functions: the empty keys, one pass of the loop, the return.
AddFunctionsStart ==
    /\ build_pc = "add_functions"
    /\ build_dict' = [build_dict EXCEPT !.functions =
                        [primary |-> EmptyPartition, modifier |-> EmptyPartition]
                        @@ EmptyTables @@ @]
    /\ build_n' = 0
    /\ build_pc' = "for func_name"
    /\ UNCHANGED << yaml_doc, build_steps, json_file, build_ret >>
    /\ BuildFrame

AddFunction ==
    /\ build_pc = "for func_name"
    /\ build_n < Len(build_dict.functions.info)
    /\ LET entry == build_dict.functions.info[build_n + 1]
       IN build_dict' = [build_dict EXCEPT !.functions =
                            add_function(@, entry.name, entry.abbreviation)]
    /\ build_n' = build_n + 1
    /\ UNCHANGED << yaml_doc, build_pc, build_steps, json_file, build_ret >>
    /\ BuildFrame

AddFunctionsReturn ==
    /\ build_pc = "for func_name"
    /\ build_n = Len(build_dict.functions.info)
    /\ Finished("add_functions")
    /\ UNCHANGED << yaml_doc, build_dict, build_n, json_file, build_ret >>
    /\ BuildFrame

AddNamespaces ==
    /\ build_pc = "add_namespaces"
    /\ build_dict' = [build_dict EXCEPT !.namespaces = add_namespaces(@)]
    /\ Finished("add_namespaces")
    /\ UNCHANGED << yaml_doc, build_n, json_file, build_ret >>
    /\ BuildFrame

EnhanceFunctionSignatures ==
    /\ build_pc = "enhance_function_signatures"
    /\ build_dict' = [build_dict EXCEPT !.functions.signatures = enhance_function_signatures(@)]
    /\ Finished("enhance_function_signatures")
    /\ UNCHANGED << yaml_doc, build_n, json_file, build_ret >>
    /\ BuildFrame

\* add_function_signature_help: the summaries, or the exception of the
\* first argument that raises one.
AddFunctionSignatureHelp ==
    /\ build_pc = "add_function_signature_help"
    /\ IF help_error(build_dict.functions) # ""
       THEN /\ build_pc' = "raised"
            /\ build_ret' = [kind |-> "raised", value |-> help_error(build_dict.functions)]
            /\ UNCHANGED << build_dict, build_steps >>
       ELSE /\ build_dict' = [build_dict EXCEPT !.functions = add_function_signature_help(@)]
            /\ Finished("add_function_signature_help")
            /\ UNCHANGED build_ret
    /\ UNCHANGED << yaml_doc, build_n, json_file >>
    /\ BuildFrame

\* json.dump to json_fn, and the return of the version.
DumpJson ==
    /\ build_pc = "dump"
    /\ json_file' = build_dict
    /\ build_ret' = [kind |-> "returned", value |-> build_dict.version]
    /\ Finished("json.dump")
    /\ UNCHANGED << yaml_doc, build_dict, build_n >>
    /\ BuildFrame

InitBuild ==
    /\ PipelineIdle /\ AnnoIdle /\ AliasIdle /\ SigIdle /\ GetIdle
    /\ CanonIdle /\ ParseIdle /\ FrameIdle /\ ProcIdle
    /\ yaml_doc \in YamlDocs \cup {Unreadable}
    /\ build_dict = [version |-> None]
    /\ build_pc = "load" /\ build_n = 0 /\ build_steps = <<>>
    /\ json_file = [version |-> None]
    /\ build_ret = [kind |-> "none", value |-> None]

NextBuild ==
    \/ LoadYaml
    \/ AddRelationsStart \/ AddRelation \/ AddRelationsReturn
    \/ AddFunctionsStart \/ AddFunction \/ AddFunctionsReturn
    \/ AddNamespaces
    \/ EnhanceFunctionSignatures
    \/ AddFunctionSignatureHelp
    \/ DumpJson

\* belspec_yaml2json on every document.
SpecBuild == InitBuild /\ [][NextBuild]_vars

\* ------------------------------------------- canonicalize, decanonicalize
\* The statements of the canonicalization tests: a term without a target
\* (GO) beside terms with one, in the subject, in the object and on both
\* sides of a nested statement.
MA_GO == Function("ma", <<NSArg("GO", "kinase activity")>>)
Complex == Function("complex", <<P_AKT1, P_EGF>>)

CanonStatements ==
    Grammar \cup
    { BELAst(Function("act", <<P_AKT1, MA_GO>>), None, NoObject),
      BELAst(Function("act", <<P_AKT1, MA_GO>>), "directlyIncreases", Complex),
      BELAst(Function("act", <<P_EGF, MA_GO>>), "directlyIncreases",
             BELAst(Complex, "directlyIncreases", Complex)) }

\* The namespace targets of a call: none, one namespace with an ordered
\* target list, and targets that are themselves namespaces with targets.
ToHGNC == ("EG" :> <<"HGNC">>)
TargetLists == {NoTargets, ToEG, ToHGNC, ToEG @@ ToHGNC}

CanonFrame ==
    /\ UNCHANGED pipeline_vars
    /\ UNCHANGED << anno_vars, alias_vars, sig_vars, get_vars >>
    /\ UNCHANGED << build_vars, parse_vars, frame_vars, proc_vars >>

\* bo.canonicalize(namespace_targets=...)
CanonicalizeAst ==
    /\ canon_asts # <<>> /\ Len(canon_ops) < MaxOps
    /\ canon_ops' = Append(canon_ops, "canonicalize")
    /\ canon_asts' = Append(canon_asts,
                            canonicalize(canon_asts[Len(canon_asts)], canon_targets))
    /\ UNCHANGED canon_targets
    /\ CanonFrame

\* bo.decanonicalize()
DecanonicalizeAst ==
    /\ canon_asts # <<>> /\ Len(canon_ops) < MaxOps
    /\ canon_ops' = Append(canon_ops, "decanonicalize")
    /\ canon_asts' = Append(canon_asts, decanonicalize(canon_asts[Len(canon_asts)]))
    /\ UNCHANGED canon_targets
    /\ CanonFrame

InitCanonicalize ==
    /\ PipelineIdle /\ AnnoIdle /\ AliasIdle /\ SigIdle /\ GetIdle
    /\ BuildIdle /\ ParseIdle /\ FrameIdle /\ ProcIdle
    /\ canon_targets \in TargetLists
    /\ canon_ops = <<>>
    /\ \E ast \in CanonStatements : canon_asts = <<ast>>

\* Up to MaxOps calls of canonicalize and decanonicalize on any statement.
SpecCanonicalize == InitCanonicalize /\ [][CanonicalizeAst \/ DecanonicalizeAst]_vars

\* ------------------------------------------------- BEL.parse, BEL.validate
\* The statements of the parse tests, an accepted statement, and one that
\* the preprocessor changes.
ParseStatements ==
    { "", "$$!@$", "a((CHEBI:oxygen atom)", "act(p(MGI:Akt1), ma(kin)) decreases MGI:Cdkn1b",
      "atrocious(CHEBI:nitric oxide)", "p(HGNC:AKT1)", "act(p(HGNC:AKT1),ma(kin))" }

\* tools.preprocess_bel_line: a space is added after a comma; a statement
\* whose parentheses do not match raises MissingParenthesis.
MissingParenthesis(statement) == statement = "a((CHEBI:oxygen atom)"

preprocess_bel_line(statement) ==
    IF statement = "act(p(HGNC:AKT1),ma(kin))" THEN "act(p(HGNC:AKT1), ma(kin))"
    ELSE statement

\* self.parser.parse: the tree of a statement, or FailedParse, or an
\* exception of another class out of the parser or its semantics. The
\* tests fix the outcome for some statements.
ParserOutcomes(statement) ==
    CASE statement \in {"p(HGNC:AKT1)", "act(p(HGNC:AKT1), ma(kin))"} -> {"AST"}
      [] statement = "$$!@$" -> {"FailedParse"}
      [] OTHER -> {"FailedParse", "Exception"}

\* tools.handle_syntax_error: the message and the drawing of a FailedParse.
handle_syntax_error(statement) ==
    [error |-> "Failed parse at position 0.", err_visual |-> statement \o " ^"]

\* tools.ParseObject and tools.ValidationObject.
ParseObject(ast, error, err_visual) ==
    [ast |-> ast, error |-> error, err_visual |-> err_visual]

ValidationObject(ast, error, err_visual, valid) ==
    [ast |-> ast, error |-> error, err_visual |-> err_visual, valid |-> valid]

ParseFrame ==
    /\ UNCHANGED pipeline_vars
    /\ UNCHANGED << anno_vars, alias_vars, sig_vars, get_vars >>
    /\ UNCHANGED << build_vars, canon_vars, frame_vars, proc_vars >>

\* B.parse(statement, strict) or B.validate(statement, strict), which
\* starts with a call of parse.
CallParse ==
    /\ parse_pc = "idle" /\ parse_call.method = "none"
    /\ \E method \in {"parse", "validate"}, statement \in ParseStatements, strict \in BOOLEAN :
          /\ parse_call' = [method |-> method, statement |-> statement, strict |-> strict]
          /\ parse_statement' = statement
    /\ parse_locals' = [ast |-> None, error |-> None, err_visual |-> None]
    /\ parse_pc' = "empty"
    /\ UNCHANGED << parse_printed, parse_ret >>
    /\ ParseFrame

\* if statement == '': the one message of parse itself.
EmptyStatement ==
    /\ parse_pc = "empty"
    /\ IF parse_statement = ""
       THEN /\ parse_locals' = [parse_locals EXCEPT
                                   !.error = "Please include a valid BEL statement."]
            /\ parse_pc' = "return"
       ELSE /\ parse_pc' = "preprocess"
            /\ UNCHANGED parse_locals
    /\ UNCHANGED << parse_call, parse_statement, parse_printed, parse_ret >>
    /\ ParseFrame

\* statement = preprocess_bel_line(statement), outside the try.
Preprocess ==
    /\ parse_pc = "preprocess"
    /\ IF MissingParenthesis(parse_statement)
       THEN /\ parse_pc' = "raised"
            /\ parse_ret' = [kind |-> "raised", exception |-> "MissingParenthesis"]
            /\ UNCHANGED parse_statement
       ELSE /\ parse_pc' = "parser"
            /\ parse_statement' = preprocess_bel_line(parse_statement)
            /\ UNCHANGED parse_ret
    /\ UNCHANGED << parse_call, parse_locals, parse_printed >>
    /\ ParseFrame

\* The try: the tree, the handler of FailedParse, the handler of any other
\* exception, which prints it and sets nothing.
ParserParse ==
    /\ parse_pc = "parser"
    /\ \E outcome \in ParserOutcomes(parse_statement) :
          CASE outcome = "AST" ->
                  /\ parse_locals' = [parse_locals EXCEPT !.ast = "AST " \o parse_statement]
                  /\ UNCHANGED parse_printed
            [] outcome = "FailedParse" ->
                  /\ parse_locals' = [parse_locals EXCEPT
                        !.error = handle_syntax_error(parse_statement).error,
                        !.err_visual = handle_syntax_error(parse_statement).err_visual]
                  /\ UNCHANGED parse_printed
            [] outcome = "Exception" ->
                  /\ parse_printed' = parse_printed \o <<"e", "type(e)">>
                  /\ UNCHANGED parse_locals
    /\ parse_pc' = "return"
    /\ UNCHANGED << parse_call, parse_statement, parse_ret >>
    /\ ParseFrame

\* return ParseObject(ast, error, err_visual); validate wraps it with
\* valid, which is whether there is a tree.
ReturnParse ==
    /\ parse_pc = "return"
    /\ LET p == ParseObject(parse_locals.ast, parse_locals.error, parse_locals.err_visual)
       IN parse_ret' =
            IF parse_call.method = "validate"
            THEN [kind |-> "returned",
                  value |-> ValidationObject(p.ast, p.error, p.err_visual, p.ast # None)]
            ELSE [kind |-> "returned", value |-> p]
    /\ parse_pc' = "returned"
    /\ UNCHANGED << parse_call, parse_statement, parse_locals, parse_printed >>
    /\ ParseFrame

InitParse ==
    /\ PipelineIdle /\ AnnoIdle /\ AliasIdle /\ SigIdle /\ GetIdle
    /\ BuildIdle /\ CanonIdle /\ FrameIdle /\ ProcIdle
    /\ ParseIdle

\* One call of parse or of validate, on any statement.
SpecParse ==
    InitParse
    /\ [][CallParse \/ EmptyStatement \/ Preprocess \/ ParserParse \/ ReturnParse]_vars

\* ------------------------------------------- create_edges and its nanopub
\* What the nanopubs hold under 'metadata'.
Metadata == <<"gd:creator", "gd:published">>

\* The nanopub argument as objects: the annotation dicts and their list,
\* the assertion dicts and their list, the type dict, the metadata dict,
\* the dict under 'nanopub' with the id, and the dict that holds it.
nanopub_objects(np) ==
    LET n == Len(np.annotations)
        m == Len(np.assertions)
    IN annotation_objects(np.annotations)
       \o [j \in 1..m |-> Cell(<<>>, << np.assertions[j].subject, np.assertions[j].relation,
                                      np.assertions[j].object >>)]
       \o << Cell([j \in 1..m |-> n + 1 + j], <<>>),
             Cell(<<>>, <<np.type.name, np.type.version>>),
             Cell(<<>>, Metadata),
             Cell(<<n + m + 3, n + 1, n + m + 2, n + m + 4>>, <<np.id>>),
             Cell(<<n + m + 5>>, <<>>) >>

\* nanopub['nanopub'] and the objects under its keys.
nanopub_dict(h, a) == h[a].refs[1]
type_dict(h, a) == h[nanopub_dict(h, a)].refs[1]
annotations_list(h, a) == h[nanopub_dict(h, a)].refs[2]
assertions_list(h, a) == h[nanopub_dict(h, a)].refs[3]

\* The assertion dict create_edges reads in the n-th pass of its loop.
assertion_at(h, a, n) ==
    LET vals == h[h[assertions_list(h, a)].refs[n]].vals
    IN [subject |-> vals[1], relation |-> vals[2], object |-> vals[3]]

\* nanopub['nanopub']['type'] as the gate reads it.
type_at(h, a) ==
    [type |-> [name |-> h[type_dict(h, a)].vals[1], version |-> h[type_dict(h, a)].vals[2]]]

\* A faulty read: the id is taken out of the nanopub.
nanopub_pop_id(h, a) ==
    [heap |-> [h EXCEPT ![nanopub_dict(h, a)] = Cell(@.refs, <<>>)],
     value |-> h[nanopub_dict(h, a)].vals[1]]

\* nanopub['nanopub'].get('id', None): the dict is read, not changed.
nanopub_get_id(h, a) ==
    [heap |-> h, value |-> h[nanopub_dict(h, a)].vals[1]]

RECURSIVE add_computed_objects(_, _, _, _, _)
\* The loop over computed_edges_ast, its edges made as objects.
add_computed_objects(h, es, asts, id, annos) ==
    IF asts = <<>> THEN [heap |-> h, edges |-> es]
    ELSE LET r == add_edge_objects(h, es, Head(asts), id, "computed", annos)
         IN add_computed_objects(r.heap, r.edges, Tail(asts), id, annos)

\* One pass of the for loop: the statement of the assertion is parsed,
\* canonicalized and orthologized, and its edges are added; an invalid
\* statement adds none.
assertion_objects(h, es, assertion, c, id, annos) ==
    IF ~accepted(statement_of(assertion)) THEN [heap |-> h, edges |-> es]
    ELSE LET canonical == canonicalize(parse_ok(statement_of(assertion)).ast,
                                       c.namespace_targets)
             ast == IF Truthy(c.orthologize_target)
                      THEN orthologize(canonical, c.orthologize_target)
                      ELSE canonical
             primary == IF Truthy(ast.bel_relation)
                          THEN add_edge_objects(h, es, ast, id, "primary", annos)
                          ELSE [heap |-> h, edges |-> es]
             computed_asts == IF wants_computed(c.rules) THEN compute_edges(ast, c.rules)
                              ELSE <<>>
         IN add_computed_objects(primary.heap, primary.edges, computed_asts, id, annos)

FrameKeeps ==
    /\ UNCHANGED pipeline_vars
    /\ UNCHANGED << anno_vars, alias_vars, sig_vars, get_vars >>
    /\ UNCHANGED << build_vars, canon_vars, parse_vars, proc_vars >>

\* The gate at the head of create_edges fails: the empty list is returned.
GateRejectObjects ==
    /\ np_pc = "gate"
    /\ version_gate(type_at(np_heap, np_addr)) # "ok"
    /\ np_pc' = "returned"
    /\ UNCHANGED << np_heap, np_addr, np_before, np_call, np_i, np_id, np_annotations,
                    np_edges >>
    /\ FrameKeeps

\* The gate passes: nanopub_id is read and the annotations are copied.
CopyAnnotations ==
    /\ np_pc = "gate"
    /\ version_gate(type_at(np_heap, np_addr)) = "ok"
    /\ LET got == nanopub_get_id(np_heap, np_addr)
           copied == deepcopy(got.heap, annotations_list(got.heap, np_addr))
       IN /\ np_id' = got.value
          /\ np_heap' = copied.heap
          /\ np_annotations' = copied.addr
    /\ np_pc' = IF Truthy(np_call.orthologize_target) THEN "orthologize_context" ELSE "loop"
    /\ UNCHANGED << np_addr, np_before, np_call, np_i, np_edges >>
    /\ FrameKeeps

\* annotations = orthologize_context(orthologize_target, annotations): the
\* body is a bare pass, so the copy is left alone and the name is bound
\* to None.
OrthologizeContext ==
    /\ np_pc = "orthologize_context"
    /\ np_heap' = Append(np_heap, Cell(<<>>, <<None>>))
    /\ np_annotations' = Len(np_heap) + 1
    /\ np_pc' = "loop"
    /\ UNCHANGED << np_addr, np_before, np_call, np_i, np_id, np_edges >>
    /\ FrameKeeps

\* for assertion in nanopub['nanopub']['assertions']: one pass.
AssertionEdges ==
    /\ np_pc = "loop"
    /\ np_i < Len(np_heap[assertions_list(np_heap, np_addr)].refs)
    /\ LET r == assertion_objects(np_heap, np_edges,
                                  assertion_at(np_heap, np_addr, np_i + 1),
                                  np_call, np_id, np_annotations)
       IN /\ np_heap' = r.heap
          /\ np_edges' = r.edges
    /\ np_i' = np_i + 1
    /\ UNCHANGED << np_addr, np_before, np_call, np_pc, np_id, np_annotations >>
    /\ FrameKeeps

\* return edges
ReturnEdges ==
    /\ np_pc = "loop"
    /\ np_i = Len(np_heap[assertions_list(np_heap, np_addr)].refs)
    /\ np_pc' = "returned"
    /\ UNCHANGED << np_heap, np_addr, np_before, np_call, np_i, np_id, np_annotations,
                    np_edges >>
    /\ FrameKeeps

\* The calls of create_edges on objects: every gate outcome, with and
\* without annotations, a rule filter and an orthologize target.
ObjectCalls ==
    { Call(Nanopub(name, version, id, annos, assertions), ToEG, rs, ortho) :
        name \in {"BEL", "Other"}, version \in {"2.0.0", "3.0.0"}, id \in {"np1", None},
        annos \in {<<>>, Human, Liver},
        assertions \in SeqsOf({Increases, SubjectOnly, BadAssertion, Nested}, 0, MaxAssertions),
        rs \in {<<>>, <<"skip">>},
        ortho \in {None, "TAX:10090"} }

InitFrame ==
    /\ PipelineIdle /\ AnnoIdle /\ AliasIdle /\ SigIdle /\ GetIdle
    /\ BuildIdle /\ CanonIdle /\ ParseIdle /\ ProcIdle
    /\ \E c \in ObjectCalls :
          /\ np_heap = nanopub_objects(c.nanopub.nanopub)
          /\ np_addr = Len(nanopub_objects(c.nanopub.nanopub))
          /\ np_before = View(nanopub_objects(c.nanopub.nanopub),
                              Len(nanopub_objects(c.nanopub.nanopub)))
          /\ np_call = [namespace_targets |-> c.namespace_targets, rules |-> c.rules,
                        orthologize_target |-> c.orthologize_target]
    /\ np_pc = "gate" /\ np_i = 0 /\ np_id = None
    /\ np_annotations = 0 /\ np_edges = <<>>

\* One call of create_edges on a nanopub made of objects.
SpecFrame ==
    InitFrame
    /\ [][GateRejectObjects \/ CopyAnnotations \/ OrthologizeContext \/ AssertionEdges
          \/ ReturnEdges]_vars

\* ------------------------------------- module import and the readers
\* The processes that share one specification directory.
Processes == {1, 2}

\* The versions whose YAML files are in the directory, in glob order.
YamlFiles == <<"1.0.0", "2.0.0">>

\* The files update_specifications writes and the readers open.
FileNames == {"versions.json"} \cup {json_fn(YamlFiles[n]) : n \in DOMAIN YamlFiles}

\* What a file holds: there is no such file, it has been opened for
\* writing and nothing is in it yet, or a document has been dumped to it.
Absent == [state |-> "absent"]
Truncated == [state |-> "truncated"]
Dumped(data) == [state |-> "dumped", data |-> data]

\* list(set(versions)): the versions in the order of a set of strings.
VersionLists == { PyList(<<"1.0.0", "2.0.0">>), PyList(<<"2.0.0", "1.0.0">>) }

\* The directory after a run of update_specifications.
Built(versions) ==
    [fn \in FileNames |->
        IF fn = "versions.json" THEN Dumped(versions)
        ELSE Dumped(specification_file(
                CHOOSE v \in Elements(YamlFiles) : json_fn(v) = fn))]

\* open(fn, 'r'): the directory is left as it is.
open_r(dir, fn) == dir

\* open(fn, 'w'): the file is made, or emptied when there is one.
open_w(dir, fn) == [dir EXCEPT ![fn] = Truncated]

\* json.dump(data, f) on the open file, and its close.
dump(dir, fn, data) == [dir EXCEPT ![fn] = Dumped(data)]

\* open(fn, 'r') and json.load(f): FileNotFoundError without the file,
\* JSONDecodeError on a file that does not hold a whole document.
load(dir, fn) ==
    CASE dir[fn].state = "absent" ->
            [kind |-> "raised", value |-> [exception |-> "FileNotFoundError"]]
      [] dir[fn].state = "truncated" ->
            [kind |-> "raised", value |-> [exception |-> "JSONDecodeError"]]
      [] dir[fn].state = "dumped" ->
            [kind |-> "returned", value |-> dir[fn].data]

\* A process that has not imported bel_specification.
NotStarted ==
    [pc |-> "off", n |-> 0, op |-> "none", version |-> None, versions |-> PyNone,
     ret |-> [kind |-> "none", value |-> [none |-> None]]]

ProcFrame ==
    /\ UNCHANGED pipeline_vars
    /\ UNCHANGED << anno_vars, alias_vars, sig_vars, get_vars >>
    /\ UNCHANGED << build_vars, canon_vars, parse_vars, frame_vars >>

\* import bel.lang.bel_specification: the else branch of the module calls
\* update_specifications.
ImportModule(p) ==
    /\ proc[p].pc = "off"
    /\ proc' = [proc EXCEPT ![p].pc = "yaml"]
    /\ UNCHANGED files
    /\ ProcFrame

\* belspec_yaml2json for the next YAML file, up to open(json_fn, 'w').
OpenJson(p) ==
    /\ proc[p].pc = "yaml" /\ proc[p].n < Len(YamlFiles)
    /\ files' = open_w(files, json_fn(YamlFiles[proc[p].n + 1]))
    /\ proc' = [proc EXCEPT ![p].pc = "json.dump"]
    /\ ProcFrame

\* json.dump(spec_dict, f) of belspec_yaml2json, and its return.
DumpSpecification(p) ==
    /\ proc[p].pc = "json.dump"
    /\ files' = dump(files, json_fn(YamlFiles[proc[p].n + 1]),
                     specification_file(YamlFiles[proc[p].n + 1]))
    /\ proc' = [proc EXCEPT ![p].pc = "yaml", ![p].n = @ + 1]
    /\ ProcFrame

\* After the loop: open(versions.json, 'w').
OpenVersions(p) ==
    /\ proc[p].pc = "yaml" /\ proc[p].n = Len(YamlFiles)
    /\ files' = open_w(files, "versions.json")
    /\ proc' = [proc EXCEPT ![p].pc = "versions.dump"]
    /\ ProcFrame

\* json.dump(list(set(versions)), f); create_ebnf_parser then writes the
\* EBNF and parser files, which are not these; the import is over.
DumpVersions(p) ==
    /\ proc[p].pc = "versions.dump"
    /\ \E versions \in VersionLists : files' = dump(files, "versions.json", versions)
    /\ proc' = [proc EXCEPT ![p].pc = "imported"]
    /\ ProcFrame

\* A process that has imported the module calls get_specification or
\* get_bel_versions, or create_edges on a nanopub of some version.
CallOperation(p) ==
    /\ proc[p].pc = "imported" /\ proc[p].op = "none"
    /\ \E op \in {"get_specification", "get_bel_versions", "create_edges"},
          version \in Versions :
          proc' = [proc EXCEPT ![p].pc = "get_bel_versions", ![p].op = op,
                               ![p].version = IF op = "get_bel_versions" THEN None
                                               ELSE version]
    /\ UNCHANGED files
    /\ ProcFrame

\* get_bel_versions: versions.json is opened for reading and loaded.
ReadVersions(p) ==
    /\ proc[p].pc = "get_bel_versions"
    /\ LET got == load(files, "versions.json")
       IN proc' = IF got.kind = "raised" \/ proc[p].op = "get_bel_versions"
                    THEN [proc EXCEPT ![p].pc = "done", ![p].ret = got]
                    ELSE [proc EXCEPT ![p].pc = "check", ![p].versions = got.value]
    /\ files' = open_r(files, "versions.json")
    /\ ProcFrame

\* The version is not in the list: get_specification returns the dict
\* with the key 'error', create_edges the empty list.
VersionUnknown(p) ==
    /\ proc[p].pc = "check"
    /\ unknown_version(proc[p].version, proc[p].versions.items)
    /\ proc' = [proc EXCEPT
                  ![p].pc = "done",
                  ![p].ret = [kind |-> "returned",
                              value |-> IF proc[p].op = "get_specification"
                                          THEN [error |-> "unknown version of BEL"]
                                          ELSE [edges |-> <<>>]]]
    /\ UNCHANGED files
    /\ ProcFrame

\* get_specification of a listed version: its JSON file is opened for
\* reading and loaded.
ReadSpecification(p) ==
    /\ proc[p].pc = "check" /\ proc[p].op = "get_specification"
    /\ ~unknown_version(proc[p].version, proc[p].versions.items)
    /\ proc' = [proc EXCEPT ![p].pc = "done",
                            ![p].ret = load(files, json_fn(proc[p].version))]
    /\ files' = open_r(files, json_fn(proc[p].version))
    /\ ProcFrame

\* create_edges on a nanopub of a listed version: the edges are made from
\* the nanopub and returned.
CreateEdges(p) ==
    /\ proc[p].pc = "check" /\ proc[p].op = "create_edges"
    /\ ~unknown_version(proc[p].version, proc[p].versions.items)
    /\ proc' = [proc EXCEPT ![p].pc = "done",
                            ![p].ret = [kind |-> "returned",
                                        value |-> [edges |-> <<"edges">>]]]
    /\ UNCHANGED files
    /\ ProcFrame

\* The directory before the first process starts: new, or left by an
\* earlier run.
InitShared ==
    /\ PipelineIdle /\ AnnoIdle /\ AliasIdle /\ SigIdle /\ GetIdle
    /\ BuildIdle /\ CanonIdle /\ ParseIdle /\ FrameIdle
    /\ files \in {[fn \in FileNames |-> Absent]} \cup {Built(versions) : versions \in VersionLists}
    /\ proc = [p \in Processes |-> NotStarted]

NextShared ==
    \E p \in Processes :
        \/ ImportModule(p)
        \/ OpenJson(p)
        \/ DumpSpecification(p)
        \/ OpenVersions(p)
        \/ DumpVersions(p)
        \/ CallOperation(p)
        \/ ReadVersions(p)
        \/ VersionUnknown(p)
        \/ ReadSpecification(p)
        \/ CreateEdges(p)

\* Two processes on one specification directory: each imports the module
\* and then makes one call.
SpecShared == InitShared /\ [][NextShared]_vars

\* ================================================================ claims
\* create_edges has returned from its latest call.
Returned == pc = "idle" /\ k > 0

\* The nanopub of the latest call is a BEL nanopub of a supported version.
Supported == upper(nanopub.type.name) = "BEL" /\ nanopub.type.version \in bel_versions

EdgeTypes(es) == [j \in DOMAIN es |-> es[j].edge.relation.edge_type]

\* C1: a nanopub whose type name is not BEL (whatever the case) or whose
\* version is not supported makes create_edges return the empty list, and
\* none of its assertions is parsed, canonicalized or turned into an edge.
C1_GateFailureYieldsNothing ==
    (k > 0 /\ ~Supported) =>
        /\ pc = "idle"
        /\ ret = << <<>> >>
        /\ calls = <<>>
        /\ edges = <<>> /\ store = <<>>
        /\ bo = BEL

C1_Witness ==
    /\ Returned
    /\ nanopub.type.name = "bel" /\ nanopub.type.version = "3.0.0"
    /\ Len(nanopub.assertions) = MaxAssertions
    /\ \A j \in DOMAIN nanopub.assertions : accepted(statement_of(nanopub.assertions[j]))
    /\ ret = << <<>> >>

\* The edges one accepted assertion contributes under the arguments of a call.
assertion_edges(assertion, c, id, annos) ==
    LET parsed == parse_ok(statement_of(assertion)).ast
        canon == canonicalize(parsed, c.namespace_targets)
        ast == IF Truthy(c.orthologize_target)
               THEN orthologize(canon, c.orthologize_target) ELSE canon
        primary == IF Truthy(ast.bel_relation)
                   THEN add_edge(<<>>, ast, id, "primary", annos) ELSE <<>>
        computed == IF wants_computed(c.rules) THEN compute_edges(ast, c.rules) ELSE <<>>
    IN emit_computed(primary, computed, id, annos)

RECURSIVE edges_without_failures(_, _, _, _)
\* The edges of the assertions of a list with the rejected ones left out.
edges_without_failures(assertions, c, id, annos) ==
    IF assertions = <<>> THEN <<>>
    ELSE (IF accepted(statement_of(Head(assertions)))
          THEN assertion_edges(Head(assertions), c, id, annos) ELSE <<>>)
         \o edges_without_failures(Tail(assertions), c, id, annos)

\* C2: an assertion that fails to parse contributes no edge, and the other
\* assertions of the nanopub contribute exactly the edges they contribute
\* without it; no edge comes from the tree a failed parse left in the
\* reused BEL object.
C2_FailedAssertionSkipped ==
    (Returned /\ Supported) =>
        /\ Len(ret) > 0
        /\ ret[1] = edges_without_failures(nanopub.assertions, call, nanopub_id, annotations)

C2_Witness ==
    /\ Returned /\ Supported
    /\ Len(nanopub.assertions) > 1
    /\ ~accepted(statement_of(nanopub.assertions[Len(nanopub.assertions)]))
    /\ ~bo.parse_valid /\ bo.ast.kind = "BELAst"
    /\ Len(ret[1]) > 1

\* The assertions of the latest nanopub that the parser rejects.
Rejected == {j \in DOMAIN nanopub.assertions : ~accepted(statement_of(nanopub.assertions[j]))}

\* C3: create_edges returns the validation messages alongside the edge
\* list: with exactly one assertion failing to parse, the returned value
\* holds the edges and exactly one validation message.
C3_MessagesReturned ==
    (Returned /\ Supported /\ Cardinality(Rejected) = 1) =>
        /\ Len(ret) = 2
        /\ Len(ret[2]) = 1

\* C4 as claimed: a single valid subject-only assertion yields exactly one
\* edge, of type primary with no relation, and no computed edge.
C4_SubjectOnlyOnePrimary ==
    (Returned /\ Supported /\ nanopub.assertions = <<SubjectOnly>>) =>
        /\ Len(ret[1]) = 1
        /\ ret[1][1].edge.relation.edge_type = "primary"
        /\ ~Truthy(ret[1][1].edge.relation.relation)

\* C4 as amended: a single valid subject-only assertion yields no primary
\* edge; the edges returned are the computed edges, one per statement
\* compute_edges returns for the subject, and none when the rules hold 'skip'.
C4_SubjectOnlyNoPrimary ==
    (Returned /\ Supported /\ nanopub.assertions = <<SubjectOnly>>) =>
        /\ \A j \in DOMAIN ret[1] : ret[1][j].edge.relation.edge_type = "computed"
        /\ Len(ret[1]) = IF Contains(rules, "skip") THEN 0
                          ELSE Len(compute_edges(bo.ast, rules))
        /\ ~Contains(rules, "skip") =>
              \A j \in DOMAIN ret[1] :
                ret[1][j].edge.relation.relation = compute_edges(bo.ast, rules)[j].bel_relation

C4_Witness ==
    /\ Returned /\ Supported /\ nanopub.assertions = <<SubjectOnly>>
    /\ rules = <<"activity">>
    /\ EdgeTypes(ret[1]) = <<"computed">>
    /\ ret[1][1].edge.relation.relation = "hasActivity"

\* The calls of compute_edges made so far in the latest create_edges.
ComputeCalls == {j \in DOMAIN calls : calls[j].op = "compute_edges"}

\* C5: with 'skip' among the rules compute_edges is never invoked and only
\* primary edges are produced; otherwise it is invoked for every valid
\* assertion with exactly the rules given, the empty list included.
C5_RuleFilter ==
    k > 0 =>
        /\ Contains(rules, "skip") =>
              /\ ComputeCalls = {}
              /\ computed_edges_ast = <<>>
              /\ \A j \in DOMAIN edges : edges[j].edge.relation.edge_type = "primary"
        /\ \A j \in ComputeCalls : calls[j].arg = rules
        /\ (~Contains(rules, "skip") /\ pc = "computed") =>
              /\ calls[Len(calls)] = [op |-> "compute_edges", i |-> i, arg |-> rules]
              /\ computed_edges_ast = compute_edges(bo.ast, rules)

C5_Witness ==
    /\ pc = "loop" /\ i = MaxAssertions
    /\ rules = <<"degradation", "skip">>
    /\ Len(edges) = MaxAssertions
    /\ nanopub.assertions[1] = Nested

\* The edges a step of the loop adds for the statement in the BEL object.
C6_Step ==
    /\ pc = "primary" =>
          IF Truthy(bo.ast.bel_relation)
          THEN /\ Len(edges') = Len(edges) + 1
               /\ SubSeq(edges', 1, Len(edges)) = edges
               /\ edges'[Len(edges')].edge.relation.edge_type = "primary"
               /\ edges'[Len(edges')].edge.relation.relation = bo.ast.bel_relation
               /\ edges'[Len(edges')].edge.subject.name = to_string(bo.ast.bel_subject)
               /\ edges'[Len(edges')].edge.object.name = to_string(bo.ast.bel_object)
          ELSE edges' = edges
    /\ pc = "computed" =>
          /\ Len(edges') = Len(edges) + Len(computed_edges_ast)
          /\ SubSeq(edges', 1, Len(edges)) = edges
          /\ \A j \in DOMAIN computed_edges_ast :
                LET e == edges'[Len(edges) + j].edge
                IN /\ e.relation.edge_type = "computed"
                   /\ e.relation.relation = computed_edges_ast[j].bel_relation
                   /\ e.subject.name = to_string(computed_edges_ast[j].bel_subject)
                   /\ e.object.name = to_string(computed_edges_ast[j].bel_object)
    /\ pc \in {"loop", "parse", "canonicalize", "orthologize", "compute"} => edges' = edges
    /\ \A j \in DOMAIN edges' :
          edges'[j].edge.relation.edge_type \in {"primary", "computed"}

\* C6: for a valid assertion with a relation create_edges appends one
\* primary edge and then one computed edge per statement compute_edges
\* returned; edges are only appended, so those of earlier assertions come
\* first, and every edge is tagged primary or computed.
C6_PrimaryThenComputed == [][C6_Step]_vars

C6_Witness ==
    /\ pc = "loop" /\ i = 2
    /\ Len(edges) > 3
    /\ EdgeTypes(edges)[1] = "primary" /\ EdgeTypes(edges)[2] = "computed"
    /\ \E j \in 3..Len(edges) : EdgeTypes(edges)[j] = "primary"
    /\ EdgeTypes(edges)[Len(edges)] = "computed"

Op(j) == calls[j].op

\* C7: for each assertion the calls come in the order parse, canonicalize,
\* orthologize (exactly when a target is given), add_edge for the primary
\* edge, compute_edges, add_edge for the computed edges; compute_edges and
\* add_edge only follow the canonicalize of the same assertion.
C7_StepOrder ==
    \A j \in DOMAIN calls :
        /\ j > 1 => calls[j - 1].i <= calls[j].i
        /\ Op(j) = "parse" => (j > 1 => calls[j - 1].i < calls[j].i)
        /\ Op(j) # "parse" => (j > 1 /\ calls[j - 1].i = calls[j].i)
        /\ Op(j) = "canonicalize" => Op(j - 1) = "parse"
        /\ Op(j) = "orthologize" =>
              Op(j - 1) = "canonicalize" /\ Truthy(call.orthologize_target)
        /\ (Op(j) = "canonicalize" /\ Truthy(call.orthologize_target) /\ j < Len(calls)) =>
              Op(j + 1) = "orthologize"
        /\ (Op(j) = "add_edge" /\ calls[j].arg = <<"primary">>) =>
              Op(j - 1) \in {"canonicalize", "orthologize"}
        /\ Op(j) = "compute_edges" =>
              \/ Op(j - 1) \in {"canonicalize", "orthologize"}
              \/ Op(j - 1) = "add_edge" /\ calls[j - 1].arg = <<"primary">>
        /\ (Op(j) = "add_edge" /\ calls[j].arg = <<"computed">>) =>
              \/ Op(j - 1) = "compute_edges"
              \/ Op(j - 1) = "add_edge" /\ calls[j - 1].arg = <<"computed">>
        /\ Op(j) \in {"add_edge", "compute_edges"} =>
              \E q \in 1..(j - 1) : Op(q) = "canonicalize" /\ calls[q].i = calls[j].i

C7_Witness ==
    /\ pc = "loop" /\ Len(calls) = 6
    /\ [j \in 1..6 |-> Op(j)] =
         <<"parse", "canonicalize", "orthologize", "add_edge", "compute_edges", "add_edge">>
    /\ calls[6].arg = <<"computed">>

\* The string add_edge hashes for an edge.
HashedString(e) ==
    e.edge.relation.subject_canon \o " " \o e.edge.relation.relation \o " "
        \o e.edge.relation.object_canon

SameStrings(r1, r2) ==
    /\ r1.subject_canon = r2.subject_canon
    /\ r1.relation = r2.relation
    /\ r1.object_canon = r2.object_canon

\* C8: the edge_hash of an edge is the hash of "{subject} {relation}
\* {object}" and of nothing else: edges with the same three canonical
\* strings have the same edge_hash whatever their nanopub id, edge type
\* and annotations, and swapping subject and object changes the hash.
C8_EdgeHashOfStringOnly ==
    \A a \in DOMAIN store : \A b \in DOMAIN store :
        LET r1 == store[a].edge.relation
            r2 == store[b].edge.relation
        IN /\ r1.edge_hash = create_hash(HashedString(store[a]))
           /\ SameStrings(r1, r2) => r1.edge_hash = r2.edge_hash
           /\ (/\ r1.subject_canon = r2.object_canon
               /\ r1.object_canon = r2.subject_canon
               /\ r1.relation = r2.relation
               /\ r1.subject_canon # r1.object_canon) => r1.edge_hash # r2.edge_hash

C8_Witness ==
    /\ \E a \in DOMAIN store : \E b \in DOMAIN store :
         LET r1 == store[a].edge.relation
             r2 == store[b].edge.relation
         IN /\ SameStrings(r1, r2)
            /\ r1.nanopub_id # r2.nanopub_id
            /\ r1.edge_type # r2.edge_type
            /\ r1.annotations # r2.annotations
            /\ r1.edge_hash = r2.edge_hash
    /\ \E a \in DOMAIN store : \E b \in DOMAIN store :
         LET r1 == store[a].edge.relation
             r2 == store[b].edge.relation
         IN /\ r1.subject_canon = r2.object_canon
            /\ r1.object_canon = r2.subject_canon
            /\ r1.relation = r2.relation
            /\ r1.subject_canon # r1.object_canon
            /\ r1.edge_hash # r2.edge_hash

\* The relation documents yielded so far.
RelationDocs == {x \in emitted : x.coll = "edges"}

\* C9 as claimed: statements with the same canonical subject, relation and
\* object strings get the same relation _key from edge_iterator, also when
\* they come from different nanopubs or carry different annotations.
C9_SameStringsSameKey ==
    \A x \in RelationDocs : \A y \in RelationDocs :
        SameStrings(x.doc, y.doc) => x.doc._key = y.doc._key

\* C9 as amended: statements with the same canonical subject, relation and
\* object strings get the same relation _key provided they also have the
\* same nanopub id, edge type and annotations.
C9_SameProvenanceSameKey ==
    \A x \in RelationDocs : \A y \in RelationDocs :
        (/\ SameStrings(x.doc, y.doc)
         /\ x.doc.nanopub_id = y.doc.nanopub_id
         /\ x.doc.edge_type = y.doc.edge_type
         /\ x.doc.annotations = y.doc.annotations) => x.doc._key = y.doc._key

C9_Witness ==
    \E x \in RelationDocs : \E y \in RelationDocs :
        /\ x.edge # y.edge
        /\ SameStrings(x.doc, y.doc)
        /\ x.doc.nanopub_id = y.doc.nanopub_id
        /\ x.doc.edge_type = y.doc.edge_type
        /\ x.doc.annotations = y.doc.annotations
        /\ x.doc.edge_dt # y.doc.edge_dt
        /\ x.doc._key = y.doc._key

\* A document without the fields named.
Without(doc, fields) == [f \in DOMAIN doc \ fields |-> doc[f]]

\* C10: the relation _key is derived before edge_dt is attached: the
\* documents edge_iterator yields for the same edge at two instants have
\* the same relation _key and the same node keys, and differ in edge_dt only.
C10_KeyBeforeTimestamp ==
    \A x \in emitted : \A y \in emitted :
        (x.edge = y.edge /\ x.role = y.role) =>
            /\ x.doc._key = y.doc._key
            /\ Without(x.doc, {"edge_dt"}) = Without(y.doc, {"edge_dt"})
            /\ x.coll = "edges" =>
                  /\ x.doc.edge_dt = dt_utc_formatted(x.at)
                  /\ x.doc._key =
                        create_hash_from_doc(Without(x.doc, {"_key", "edge_dt", "metadata"}))

C10_Witness ==
    \E x \in RelationDocs : \E y \in RelationDocs :
        /\ x.edge = y.edge
        /\ x.at # y.at
        /\ x.doc.edge_dt # y.doc.edge_dt
        /\ x.doc._key = y.doc._key

\* The node documents yielded so far.
NodeDocs == {x \in emitted : x.coll = "nodes"}

\* C11: a node _key is the hash of the node document {name, label,
\* components} alone: equal subject or object documents get the same _key,
\* in whatever edge, nanopub or position they occur, and whatever the
\* annotations and provenance of their edges.
C11_NodeKeyFromContent ==
    \A x \in NodeDocs :
        /\ DOMAIN x.doc = {"name", "label", "components", "_key"}
        /\ x.doc._key = create_hash_from_doc(Without(x.doc, {"_key"}))
        /\ \A y \in NodeDocs :
              Without(x.doc, {"_key"}) = Without(y.doc, {"_key"})
                  => x.doc._key = y.doc._key

C11_Witness ==
    \E x \in NodeDocs : \E y \in NodeDocs :
        /\ x.role = 1 /\ y.role = 2
        /\ x.edge # y.edge
        /\ store[x.edge].edge.relation.nanopub_id # store[y.edge].edge.relation.nanopub_id
        /\ store[x.edge].edge.relation.annotations # store[y.edge].edge.relation.annotations
        /\ Without(x.doc, {"_key"}) = Without(y.doc, {"_key"})
        /\ x.doc._key = y.doc._key

\* The document yielded in a position (1 subject, 2 object, 3 relation) for
\* the same edge in the same pass as x.
Sibling(x, role) ==
    CHOOSE y \in emitted : y.edge = x.edge /\ y.at = x.at /\ y.role = role

\* C12: the relation document's _from is the _key of the subject node
\* document and its _to the _key of the object node document yielded for
\* the same edge.
C12_FromToAreNodeKeys ==
    \A x \in RelationDocs :
        /\ x.doc._from = "nodes/" \o Sibling(x, 1).doc._key
        /\ x.doc._to = "nodes/" \o Sibling(x, 2).doc._key
        /\ Sibling(x, 1).coll = "nodes" /\ Sibling(x, 2).coll = "nodes"

C12_Witness ==
    \E x \in RelationDocs :
        /\ x.doc._from # x.doc._to
        /\ Sibling(x, 1).doc.name = x.doc.subject_canon
        /\ Sibling(x, 2).doc.name = x.doc.object_canon
        /\ x.doc._from = "nodes/" \o Sibling(x, 1).doc._key

\* C13: the relation document of an edge add_edge built with a nanopub id
\* carries that id under metadata.nanopub_id and not at its top level.
C13_NanopubIdUnderMetadata ==
    \A x \in RelationDocs :
        Truthy(store[x.edge].edge.relation.nanopub_id) =>
            /\ "metadata" \in DOMAIN x.doc
            /\ x.doc.metadata.nanopub_id = store[x.edge].edge.relation.nanopub_id
            /\ "nanopub_id" \notin DOMAIN x.doc

\* The annotations of some type in a list.
OfType(annos, type) == SelectSeq(annos, LAMBDA a : a.type = type)

\* C15: with an orthologize target the edges carry the nanopub's
\* annotations with the species value replaced by the target taxon and one
\* OrthologizedFrom annotation recording the original species appended,
\* no original annotation being deleted.
C15_OrthologizedContext ==
    (Returned /\ Supported /\ Truthy(call.orthologize_target)) =>
        \A j \in DOMAIN ret[1] :
            LET given == nanopub.annotations
                got == ret[1][j].edge.relation.annotations
            IN /\ got.py = "list"
               /\ Len(got.items) = Len(given) + 1
               /\ \A n \in DOMAIN given :
                     got.items[n] = IF given[n].type = "Species"
                                      THEN [given[n] EXCEPT !.id = call.orthologize_target]
                                      ELSE given[n]
               /\ got.items[Len(got.items)].type = "OrthologizedFrom"
               /\ got.items[Len(got.items)].id = OfType(given, "Species")[1].id

\* a is a subsequence of b: its entries occur in b, in the same order.
RECURSIVE IsSubseq(_, _)
IsSubseq(a, b) ==
    IF a = <<>> THEN TRUE
    ELSE IF b = <<>> THEN FALSE
    ELSE IF a[1] = b[1] THEN IsSubseq(Tail(a), Tail(b))
    ELSE IsSubseq(a, Tail(b))

\* An annotation with a type and exactly one of id and label.
HalfFilled(anno) == has(anno, "type") /\ (has(anno, "id") # has(anno, "label"))

\* An annotation with a type, an id and a label.
Complete(anno) == has(anno, "type") /\ has(anno, "id") /\ has(anno, "label")

\* The annotation with id and label both set to the one it has.
Mirrored(anno) ==
    LET v == IF has(anno, "id") THEN anno["id"] ELSE anno["label"]
    IN set_item(set_item(anno, "id", v), "label", v)

\* C16: an annotation with a type and exactly one of id and label is kept,
\* the missing one of the two set to the value of the present one.
C16_BackfillKeeps ==
    anno_out.py = "list" =>
        LET half == SelectSeq(anno_in, HalfFilled)
        IN IsSubseq([j \in DOMAIN half |-> Mirrored(half[j])], anno_out.items)

C16_Witness ==
    /\ anno_out.py = "list"
    /\ Len(anno_in) = 2
    /\ HalfFilled(anno_in[1]) /\ has(anno_in[1], "id")
    /\ HalfFilled(anno_in[2]) /\ has(anno_in[2], "label")
    /\ anno_out.items = << Mirrored(anno_in[1]), Mirrored(anno_in[2]) >>
    /\ anno_out.items[1]["label"] = "TAX:9606" /\ anno_out.items[2]["id"] = "human"

\* C17: an annotation with no type, or with neither id nor label, is
\* dropped, and every annotation of the result has a type, an id and a label.
C17_ResultComplete ==
    anno_out.py = "list" =>
        /\ \A n \in DOMAIN anno_out.items : Complete(anno_out.items[n])
        /\ Len(anno_out.items) <=
              Len(SelectSeq(anno_in, LAMBDA a : has(a, "type")
                                                 /\ (has(a, "id") \/ has(a, "label"))))

\* C18: an annotation that already has a type, an id and a label is in the
\* result unchanged, and the retained annotations keep their order.
C18_CompleteRetained ==
    anno_out.py = "list" => IsSubseq(SelectSeq(anno_in, Complete), anno_out.items)

\* The lists and dicts an edge of the list is made of.
EdgeObjects(j) == Reachable(heap, {alias_edges[j]})

\* C14: an edge in the edges list shares no list or dict with the
\* annotations given to add_edge or with another edge, and a change made
\* to the annotations or to another edge leaves what it holds as it was.
C14_Step ==
    \A j \in DOMAIN alias_edges :
        /\ EdgeObjects(j) \cap Reachable(heap, {alias_annotations}) = {}
        /\ \A l \in DOMAIN alias_edges : l # j => EdgeObjects(j) \cap EdgeObjects(l) = {}
        /\ \/ alias_op'.op = "mutate_edge" /\ alias_op'.j = j
           \/ View(heap', alias_edges[j]) = View(heap, alias_edges[j])

C14_EdgesShareNothing == [][C14_Step]_vars

C14_Witness ==
    /\ Len(alias_edges) = 2
    /\ alias_op = [op |-> "mutate_edge", j |-> 1]
    /\ heap[alias_annotations] = Cell(<<>>, <<"mutated">>)
    /\ Len(heap[alias_edges[1]].refs) = 3 /\ Len(heap[alias_edges[2]].refs) = 3
    /\ heap[heap[alias_edges[1]].refs[1]] = Cell(<<>>, <<"mutated">>)
    /\ View(heap, heap[alias_edges[2]].refs[1]).items =
          << [vals |-> <<"Species", "TAX:9606", "human">>, items |-> <<>>],
             [vals |-> <<"Tissue", "UBERON:liver", "liver">>, items |-> <<>>] >>

\* The lists among req_args, pos_args, opt_args and mult_args that a step
\* has changed.
ListsChanged ==
    {name \in {"req_args", "pos_args", "opt_args", "mult_args"} :
        \/ name = "req_args" /\ req_args' # req_args
        \/ name = "pos_args" /\ pos_args' # pos_args
        \/ name = "opt_args" /\ opt_args' # opt_args
        \/ name = "mult_args" /\ mult_args' # mult_args}

\* C20 as claimed: every argument of every signature goes to exactly one
\* of req_args, pos_args, opt_args and mult_args, whatever its type, its
\* optional, position and multiple flags and its values.
C20_Step ==
    (sig_pc = "arguments" /\ arg_n' = arg_n + 1) => Cardinality(ListsChanged) = 1

C20_EachArgumentInOneList == [][C20_Step]_vars

\* The class of an argument, by its flags.
ClassOf(arg) ==
    IF arg.multiple THEN "mult_args"
    ELSE IF arg.optional /\ arg.position THEN "pos_args"
    ELSE IF arg.optional THEN "opt_args"
    ELSE "req_args"

\* The entries a step has added to the four lists together.
EntriesAdded ==
    (Len(req_args') + Len(pos_args') + Len(opt_args') + Len(mult_args'))
        - (Len(req_args) + Len(pos_args) + Len(opt_args) + Len(mult_args))

\* C20 as amended: an argument goes to no list but the one of its class,
\* which its flags alone decide.  It adds one entry there, except a
\* Function or Modifier argument of the mult_args or opt_args class, which
\* adds one entry per value: none when its values are empty or absent.
C20_AmendedStep ==
    (sig_pc = "arguments" /\ arg_n' = arg_n + 1) =>
        LET arg == signatures_of(spec_dict)[sig_i].arguments[arg_n + 1]
            flattened == arg.type \in FunctionTypes
                            /\ ClassOf(arg) \in {"mult_args", "opt_args"}
        IN /\ ListsChanged \subseteq {ClassOf(arg)}
           /\ EntriesAdded = IF flattened THEN Len(get_values(arg)) ELSE 1
           /\ Cardinality(ListsChanged) = IF flattened /\ get_values(arg) = <<>> THEN 0 ELSE 1

C20_ArgumentInListOfItsClass == [][C20_AmendedStep]_vars

C20_Witness ==
    /\ sig_pc = "returned"
    /\ LET sig == signatures_of(spec_dict)[1]
       IN /\ Len(sig.arguments) = 2
          /\ sig.arguments[1].type = "Function" /\ sig.arguments[1].multiple
          /\ sig.arguments[1].optional /\ sig.arguments[1].position
          /\ sig.arguments[1].values = PyList(<<>>)
          /\ sig.req_args = <<>> /\ sig.pos_args = <<>> /\ sig.opt_args = <<>>
          /\ sig.mult_args = << PyStr("loc"), PyStr("pmod") >>

\* The call was made with a version that the list read from versions.json
\* does not hold.
VersionNotListed ==
    /\ get_versions.py = "list"
    /\ get_version \notin Elements(get_versions.items)

\* C19: get_specification with a version that is not in the supported list
\* ends at once with an outcome that no specification can be taken for: a
\* dict with the key 'error', without relations or functions tables, and
\* no specification file is opened.
C19_UnknownVersionFailsFast ==
    VersionNotListed =>
        /\ get_opened = <<"versions.json">>
        /\ get_pc \in {"check", "returned"}
        /\ get_pc = "returned" =>
              /\ get_ret.kind = "returned"
              /\ "error" \in DOMAIN get_ret.value
              /\ {"relations", "functions", "version"} \cap DOMAIN get_ret.value = {}
              /\ \A version \in Versions :
                    "error" \notin DOMAIN specification_file(version)
              /\ get_log # <<>>

C19_Witness ==
    /\ get_pc = "returned"
    /\ get_version = "3.0.0"
    /\ get_versions = PyList(<<"2.0.0", "1.0.0">>)
    /\ "3.0.0" \in spec_dir.specifications
    /\ get_ret.value = [error |-> "unknown version of BEL"]

\* add_relations and add_functions have both returned.
TablesBuilt == Contains(build_steps, "add_functions")

\* Every declared name is mapped to its short and to its long form, in
\* one step and in two.
Bidirectional(tables) ==
    \A n \in DOMAIN tables.info :
        LET L == tables.info[n].name
            S == tables.info[n].abbreviation
        IN /\ {L, S} \subseteq DOMAIN tables.to_short
           /\ {L, S} \subseteq DOMAIN tables.to_long
           /\ tables.to_short[L] = S /\ tables.to_short[S] = S
           /\ tables.to_long[S] = L /\ tables.to_long[L] = L
           /\ \A x \in {L, S} : /\ tables.to_long[tables.to_short[x]] = L
                                /\ tables.to_short[tables.to_long[x]] = S

\* Every function is in one partition and not in the other.
Partitioned(functions) ==
    \A n \in DOMAIN functions.info :
        Contains(functions.primary.list_long, functions.info[n].name)
            # Contains(functions.modifier.list_long, functions.info[n].name)

\* No name, long or short, is declared by two entries.
Unambiguous(info) ==
    \A m, n \in DOMAIN info :
        m # n => {info[m].name, info[m].abbreviation}
                    \cap {info[n].name, info[n].abbreviation} = {}

\* C21 as claimed: the tables of add_relations and add_functions map every
\* declared long name and its abbreviation to the abbreviation and to the
\* long name, and every function is in exactly one of the primary and
\* modifier partitions.
C21_TablesBidirectional ==
    TablesBuilt =>
        /\ Bidirectional(build_dict.relations)
        /\ Bidirectional(build_dict.functions)
        /\ Partitioned(build_dict.functions)

\* C21 as amended: the same, for the relations and for the functions of a
\* document in which no two entries declare the same name; every function
\* is in exactly one partition in any document.
C21_UnambiguousTablesBidirectional ==
    TablesBuilt =>
        /\ Unambiguous(build_dict.relations.info) => Bidirectional(build_dict.relations)
        /\ Unambiguous(build_dict.functions.info) => Bidirectional(build_dict.functions)
        /\ Partitioned(build_dict.functions)

C21_Witness ==
    /\ build_pc = "returned"
    /\ build_dict.relations.info = <<Relation("increases", "->"), Relation("decreases", "-|")>>
    /\ build_dict.functions.info = <<FunctionInfo("proteinAbundance", "p", "primary"),
                                     FunctionInfo("activity", "act", "modifier")>>
    /\ build_dict.relations.to_long["-|"] = "decreases"
    /\ build_dict.functions.to_short["activity"] = "act"
    /\ build_dict.functions.modifier.list_long = <<"activity">>

\* The steps of belspec_yaml2json, in the order of the claim.
StepOrder ==
    <<"admin", "add_relations", "add_functions", "add_namespaces",
      "enhance_function_signatures", "add_function_signature_help", "json.dump">>

IsPrefix(a, b) == Len(a) <= Len(b) /\ a = SubSeq(b, 1, Len(a))

Unwritten == [version |-> None]

\* C22: belspec_yaml2json builds the relation maps, the function maps and
\* partitions, the namespace maps, the signature lists and the signature
\* help in this order; the help starts only when functions.to_short
\* exists, and the JSON file is written only after every step has
\* finished, with all they built.
C22_BuildOrder ==
    /\ IsPrefix(build_steps, StepOrder)
    /\ build_pc = "add_function_signature_help"
          => /\ "to_short" \in DOMAIN build_dict.functions
             /\ Contains(build_steps, "add_functions")
    /\ json_file # Unwritten
          => /\ build_steps = StepOrder
             /\ json_file = build_dict
             /\ {"list", "to_short", "to_long"} \subseteq DOMAIN json_file.relations
             /\ {"primary", "modifier", "to_short"} \subseteq DOMAIN json_file.functions
             /\ \A f \in DOMAIN json_file.functions.signatures :
                   \A n \in DOMAIN json_file.functions.signatures[f].signatures :
                       {"req_args", "argument_summary"}
                           \subseteq DOMAIN json_file.functions.signatures[f].signatures[n]
    /\ build_pc = "raised" => json_file = Unwritten

C22_Witness ==
    /\ build_pc = "returned"
    /\ build_steps = StepOrder
    /\ json_file # Unwritten
    /\ Len(json_file.functions.signatures) = 1
    /\ json_file.functions.signatures[1].signatures[1].argument_summary = "proteinAbundance(act())"

\* Both calls of a run have returned.
BothReturned == pc = "idle" /\ k = 2

\* C23: two calls of create_edges with the same nanopub, namespace
\* targets, rule filter and orthologize target return equal lists, edge
\* by edge in the same order, every edge_hash included.
C23_SameCallSameEdges ==
    (BothReturned /\ inputs[1] = inputs[2]) => store = ret[1] \o ret[1]

C23_Witness ==
    /\ BothReturned /\ inputs[1] = inputs[2]
    /\ Len(ret[1]) > 2
    /\ EdgeTypes(ret[1])[1] = "primary"
    /\ Contains(EdgeTypes(ret[1]), "computed")
    /\ \E j \in DOMAIN log : log[j] # "not BEL" /\ log[j] # "unknown version"

\* The second of two calls of canonicalize in a row changes nothing.
SecondCallNoOp ==
    \A n \in DOMAIN canon_ops :
        (n > 1 /\ canon_ops[n - 1] = "canonicalize" /\ canon_ops[n] = "canonicalize")
            => canon_asts[n + 1] = canon_asts[n]

\* No target namespace of the list is itself a namespace with targets.
TargetsFinal(namespace_targets) ==
    \A ns \in DOMAIN namespace_targets :
        \A n \in DOMAIN namespace_targets[ns] :
            namespace_targets[ns][n] \notin DOMAIN namespace_targets

RECURSIVE Leaves(_)
Leaves(t) ==
    CASE t.kind = "NSArg" -> <<t>>
      [] t.kind = "Function" -> Flatten([n \in DOMAIN t.args |-> Leaves(t.args[n])])
      [] t.kind = "None" -> <<>>
      [] t.kind = "BELAst" -> Leaves(t.bel_subject) \o Leaves(t.bel_object)

\* A statement with its namespace terms blanked: the relations, the
\* functions and the order of their arguments.
RECURSIVE Shape(_)
Shape(t) ==
    CASE t.kind = "NSArg" -> NSArg("", "")
      [] t.kind = "Function" -> [t EXCEPT !.args = [n \in DOMAIN t.args |-> Shape(t.args[n])]]
      [] t.kind = "None" -> t
      [] t.kind = "BELAst" -> [t EXCEPT !.bel_subject = Shape(t.bel_subject),
                                        !.bel_object = Shape(t.bel_object)]

\* The target namespaces in which the resolver has an equivalent of a
\* term, as positions of the term's target list.
TargetsOf(term, namespace_targets) ==
    IF to_string(term) \in DOMAIN Equivalents /\ term.name \in DOMAIN namespace_targets
    THEN {n \in DOMAIN namespace_targets[term.name] :
            namespace_targets[term.name][n] \in DOMAIN Equivalents[to_string(term)].forms}
    ELSE {}

\* What the claim says of a term: its equivalent in the first target
\* namespace that has one, and the term itself when there is none.
CanonicalForm(term, namespace_targets) ==
    LET found == TargetsOf(term, namespace_targets)
        first == CHOOSE n \in found : \A m \in found : n <= m
    IN IF found = {} THEN term
       ELSE Equivalents[to_string(term)].forms[namespace_targets[term.name][first]]

\* A call of canonicalize rewrites the terms with a target, each in its
\* place, and nothing else.
RewritesTerms ==
    \A n \in DOMAIN canon_ops :
        canon_ops[n] = "canonicalize" =>
            /\ Shape(canon_asts[n + 1]) = Shape(canon_asts[n])
            /\ Leaves(canon_asts[n + 1]) =
                  [j \in DOMAIN Leaves(canon_asts[n]) |->
                      CanonicalForm(Leaves(canon_asts[n])[j], canon_targets)]

\* decanonicalize after canonicalize gives the statement that was parsed.
RoundTrip ==
    (Len(canon_ops) >= 2 /\ canon_ops[1] = "canonicalize" /\ canon_ops[2] = "decanonicalize")
        => canon_asts[3] = canon_asts[1]

\* No term of the statement is one that decanonicalize replaces.
InLabelForm(ast) ==
    \A n \in DOMAIN Leaves(ast) : to_string(Leaves(ast)[n]) \notin DOMAIN decanonical_rewrite

ThreePerEdge ==
    /\ Len(yielded) = 3 * it_pos
    /\ \A j \in DOMAIN yielded :
          /\ yielded[j][1] = (IF j % 3 = 0 THEN "edges" ELSE "nodes")
          /\ "_key" \in DOMAIN yielded[j][2]
    /\ \A e \in 1..it_pos :
          /\ yielded[3 * e - 2][2] = node_doc(store[e].edge.subject)
          /\ yielded[3 * e - 1][2] = node_doc(store[e].edge.object)
          /\ yielded[3 * e][2]._from = "nodes/" \o yielded[3 * e - 2][2]._key
          /\ yielded[3 * e][2]._to = "nodes/" \o yielded[3 * e - 1][2]._key

\* C29: edge_iterator on an in-memory edge list, edges_fn left at None,
\* yields for each edge in list order the subject node, the object node
\* and then the edge, each with a _key, and ends without raising.
C29_YieldsThenStops ==
    /\ it_status # "idle" => ThreePerEdge
    /\ it_status # "raised"

\* C27: a failure that parse or validate returns has a message: when the
\* ast is None the error is a non-empty message, and validate reports
\* valid = False exactly when the ast is None.
C27_FailureHasMessage ==
    parse_ret.kind = "returned" =>
        /\ parse_ret.value.ast = None => Truthy(parse_ret.value.error)
        /\ parse_call.method = "validate"
              => (parse_ret.value.valid = FALSE <=> parse_ret.value.ast = None)

\* C28: create_edges leaves its nanopub argument unchanged. At every step
\* of the call and after it, with or without an orthologize target, what
\* a reader sees in the nanopub (its type, id, annotations, assertions
\* and metadata) equals what it held when create_edges was called, and no
\* object of the nanopub is among the objects of the returned edges.
C28_NanopubUnchanged ==
    np_pc # "idle" =>
        /\ View(np_heap, np_addr) = np_before
        /\ Reachable(np_heap, {np_addr})
              \cap Reachable(np_heap, {np_edges[j] : j \in DOMAIN np_edges}) = {}

\* A call with an orthologize target has returned edges made from a
\* nanopub with annotations, an id and two assertions.
C28_Witness ==
    /\ np_pc = "returned"
    /\ Truthy(np_call.orthologize_target)
    /\ Len(np_edges) >= 2
    /\ np_i = 2
    /\ np_before.items[1].vals = <<"np1">>
    /\ Len(np_before.items[1].items[2].items) = 2

\* A call without an orthologize target has returned edges that hold
\* copies of the annotations.
C28_WitnessNoTarget ==
    /\ np_pc = "returned"
    /\ ~Truthy(np_call.orthologize_target)
    /\ Len(np_edges) >= 2
    /\ Len(np_before.items[1].items[2].items) = 2

\* The process has obtained a specification: its import is over.
Obtained(p) == proc[p].pc \in {"imported", "get_bel_versions", "check", "done"}

\* The directory holds every file whole.
DirectoryComplete ==
    \A fn \in FileNames :
        /\ files[fn].state = "dumped"
        /\ fn # "versions.json" =>
              \E v \in Elements(YamlFiles) :
                  json_fn(v) = fn /\ files[fn].data = specification_file(v)
        /\ fn = "versions.json" => Elements(files[fn].data.items) = Elements(YamlFiles)

\* What the call of a process gives on the complete specification.
Expected(p) ==
    CASE proc[p].op = "get_bel_versions" ->
            /\ proc[p].ret.kind = "returned"
            /\ Elements(proc[p].ret.value.items) = Elements(YamlFiles)
      [] proc[p].op = "get_specification" ->
            /\ proc[p].ret.kind = "returned"
            /\ proc[p].ret.value =
                  IF proc[p].version \in Elements(YamlFiles)
                  THEN specification_file(proc[p].version)
                  ELSE [error |-> "unknown version of BEL"]
      [] proc[p].op = "create_edges" ->
            /\ proc[p].ret.kind = "returned"
            /\ proc[p].ret.value =
                  IF proc[p].version \in Elements(YamlFiles)
                  THEN [edges |-> <<"edges">>]
                  ELSE [edges |-> <<>>]

\* C26: the specification is built once and never changed afterwards.
\* Once a process has obtained a specification the specification data
\* stays as it was built, whole, and every call of get_specification,
\* get_bel_versions or create_edges that has ended has seen the same
\* complete specification.
C26_BuiltOnceReadersAgree ==
    \A p \in Processes :
        /\ Obtained(p) => DirectoryComplete
        /\ proc[p].pc = "done" => Expected(p)

\* C26, the part about the three operations: no step of get_specification,
\* get_bel_versions or create_edges changes a file of the specification.
C26_ReadersDoNotWrite ==
    [][\A p \in Processes :
          (ReadVersions(p) \/ VersionUnknown(p) \/ ReadSpecification(p) \/ CreateEdges(p)
             \/ CallOperation(p)) => files' = files]_vars

\* C26 with one process: while no other process imports the module, the
\* files stay whole and every call sees the complete specification.
C26_AloneReadersAgree ==
    (\E q \in Processes : proc[q].pc = "off") => C26_BuiltOnceReadersAgree

\* A process has read a specification while no other process has started.
C26_AloneWitness ==
    \E p \in Processes :
        /\ proc[p].pc = "done" /\ proc[p].op = "get_specification"
        /\ proc[p].ret.kind = "returned"
        /\ proc[p].ret.value = specification_file("2.0.0")
        /\ \E q \in Processes : proc[q].pc = "off"


====
